---- MODULE Spec2Model ----
(***************************************************************************)
(* Verification model of the Exchange/Thunderbird synchronisation core:    *)
(* the retry wrapper of ExchangeClient, the dedup-key functions and item   *)
(* converters, the per-account single-flight guard of the three sync       *)
(* engines, and the reconciliation passes of ContactSync, CalendarSync and *)
(* EmailSync.                                                              *)
(*                                                                         *)
(* The module holds several specifications over one set of variables; a    *)
(* specification leaves the variables of the other parts at their idle     *)
(* value.                                                                  *)
(*   SpecRetry    ExchangeClient.executeWithRetry                          *)
(*   SpecKeys     key functions and converters, applied to bounded inputs  *)
(*   SpecEngine   sync / incrementalSync calls interleaving on the engines *)
(*   SpecContacts ContactSync.sync run twice over bounded stores           *)
(*   SpecCalendar CalendarSync.sync run twice over a bounded calendar      *)
(*   SpecMail     EmailSync.sync run twice over a bounded folder           *)
(*   SpecContactsFaults, SpecCalendarFaults, SpecMailFaults                *)
(*                the same runs with failing store calls                   *)
(*   SpecDiff, SpecStatus                                                  *)
(*                needsUpdate and the status converters on bounded inputs  *)
(*   SpecCoordinator, SpecTimers                                           *)
(*                ExchangeExtension: syncAccount, removeAccount, timers    *)
(*   SpecIncremental                                                       *)
(*                incrementalSync of the mail and the contacts engine      *)
(*   SpecEngineFair                                                        *)
(*                SpecEngine with every awaited call settling              *)
(*   SpecSetup    setupAccount beside syncAccount and removeAccount        *)
(*   SpecContainer, SpecBooks                                              *)
(*                getOrCreateAddressBook: concurrent calls, two accounts   *)
(*   SpecLifecycle                                                         *)
(*                SpecEngine with init and cleanup between the calls       *)
(*   SpecToken    refreshTokenIfNeeded before the engines start            *)
(*   SpecConflict ContactSync.sync over pairs in conflict                  *)
(***************************************************************************)
EXTENDS Integers, Sequences, FiniteSets, TLC

VARIABLES
    rx,                 \* executeWithRetry: one call of the retry wrapper
    kx,                 \* key functions: the input last applied and its keys
    syncState,          \* engine -> account -> entry of the engine's syncState Map
    lastSyncTimestamp,  \* engine -> account -> timestamp, 0 when the Map has no entry
    calls,              \* the sync / incrementalSync calls made on the engines
    clock,              \* Date.now(), advanced at every timestamp taken
    tbStore,            \* the local (Thunderbird) items of the synced container
    exStore,            \* the remote (Exchange) items of the account
    run,                \* the sync run in progress over the two stores
    runResults,         \* the result each finished run returned
    storeLog,           \* the writes made to either store, in order
    cx                  \* ExchangeExtension: accounts, storage, timers, calls

retryVars == <<rx>>
keyVars == <<kx>>
engineVars == <<syncState, lastSyncTimestamp, calls, clock>>
dataVars == <<tbStore, exStore, run, runResults, storeLog>>
coordVars == <<cx>>
vars == <<rx, kx, syncState, lastSyncTimestamp, calls, clock,
          tbStore, exStore, run, runResults, storeLog, cx>>

(***************************************************************************)
(* The value each part's variables keep under a specification of another   *)
(* part.                                                                   *)
(***************************************************************************)
RetryIdle ==
    [phase |-> "idle", retryCount |-> 0, trace |-> <<>>, errors |-> <<>>,
     thrown |-> <<>>, result |-> "none"]

KeysIdle == [stage |-> "idle"]

RunUnused == [pc |-> "unused"]

CoordIdle == [stage |-> "idle"]

(***************************************************************************)
(* Strings.  A string is a sequence of one-character strings; the          *)
(* operations of String.prototype the code uses are computed on it.        *)
(***************************************************************************)
\* String.prototype.toLowerCase on one character of the model's alphabet
LowerChar(c) ==
    CASE c = "A" -> "a"
      [] c = "B" -> "b"
      [] c = "F" -> "f"
      [] c = "S" -> "s"
      [] OTHER -> c

toLowerCase(s) == [i \in 1..Len(s) |-> LowerChar(s[i])]

RECURSIVE TrimLeft(_)
TrimLeft(s) == IF s # <<>> /\ Head(s) = " " THEN TrimLeft(Tail(s)) ELSE s

RECURSIVE TrimRight(_)
TrimRight(s) ==
    IF s # <<>> /\ s[Len(s)] = " " THEN TrimRight(SubSeq(s, 1, Len(s) - 1)) ELSE s

\* String.prototype.trim
trim(s) == TrimRight(TrimLeft(s))

\* JavaScript truthiness of a string-or-missing field: '' , null and
\* undefined are all falsy; the model writes each of them as <<>>.
Truthy(s) == s # <<>>

\* message.includes(token): the token occurs among the words of the message
includes(msg, token) == \E i \in 1..Len(msg) : msg[i] = token

(***************************************************************************)
(* ExchangeClient.executeWithRetry                                         *)
(***************************************************************************)
baseRetryDelay == 1000
maxRetries == 3

\* error.status when the thrown error carries no status property
NoStatus == 0

\* Error messages an operation can fail with, as sequences of words.
ErrorMessages ==
    { <<"NetworkError", "when", "attempting", "to", "fetch">>,
      <<"ErrorServerBusy">>,
      <<"HTTP", "503:", "Service", "Unavailable">>,
      <<"ErrorItemNotFound">> }

ErrorStatuses == {NoStatus, 404, 429, 503}

\* The errors an operation closure may throw.
Errors == [message : ErrorMessages, status : ErrorStatuses]

RECURSIVE Pow2(_)
\* Math.pow(2, n)
Pow2(n) == IF n = 0 THEN 1 ELSE 2 * Pow2(n - 1)

isRetryableError(error) ==
    \/ includes(error.message, "NetworkError")
    \/ includes(error.message, "ECONNRESET")
    \/ includes(error.message, "ETIMEDOUT")
    \/ (error.status >= 500 /\ error.status < 600)
    \/ error.status = 429
    \/ includes(error.message, "ErrorServerBusy")
    \/ includes(error.message, "ErrorTimeoutExpired")
    \/ includes(error.message, "ErrorConnectionFailed")

ShouldRetryMutOffByOne(error, retryCount) ==
    isRetryableError(error) /\ retryCount <= maxRetries

ShouldRetryMutIgnoresClass(error, retryCount) == retryCount < maxRetries

\* the condition of the catch block that decides between retry and rethrow
ShouldRetry(error, retryCount) ==
    isRetryableError(error) /\ retryCount < maxRetries

BackoffDelayMutConstant(retryCount) == baseRetryDelay

\* const delay = this.baseRetryDelay * Math.pow(2, retryCount)
BackoffDelay(retryCount) == baseRetryDelay * Pow2(retryCount)

ThrownErrorMutFirstFailure(earlier, error) ==
    IF earlier = <<>> THEN error ELSE earlier[1]

\* throw error: the catch block of the innermost call throws the error it
\* caught, and each enclosing call's "return await" lets it pass as it is
ThrownError(earlier, error) == error

InvokeEvent(n) == [kind |-> "invoke", n |-> n, ms |-> 0]
SleepEvent(ms) == [kind |-> "sleep", n |-> 0, ms |-> ms]

InitRetry ==
    /\ rx = RetryIdle
    /\ cx = CoordIdle
    /\ kx = KeysIdle
    /\ syncState = <<>>
    /\ lastSyncTimestamp = <<>>
    /\ calls = <<>>
    /\ clock = 0
    /\ tbStore = <<>>
    /\ exStore = <<>>
    /\ run = RunUnused
    /\ runResults = <<>>
    /\ storeLog = <<>>

\* executeWithRetry(operation): the first invocation of the operation starts
RetryCall ==
    /\ rx.phase = "idle"
    /\ rx' = [rx EXCEPT !.phase = "invoking", !.trace = <<InvokeEvent(1)>>]

\* the awaited operation resolves: the call returns its result
OperationSucceeds ==
    /\ rx.phase = "invoking"
    /\ rx' = [rx EXCEPT !.phase = "returned", !.result = "success"]

\* the awaited operation rejects: catch block, retry after a sleep or rethrow
OperationFails ==
    /\ rx.phase = "invoking"
    /\ \E e \in Errors :
         LET error == [message |-> e.message, status |-> e.status,
                       attempt |-> rx.retryCount + 1, cause |-> "operation"]
         IN IF ShouldRetry(error, rx.retryCount)
            THEN rx' = [rx EXCEPT !.phase = "sleeping",
                                  !.errors = Append(@, error),
                                  !.trace = Append(@, SleepEvent(BackoffDelay(rx.retryCount)))]
            ELSE rx' = [rx EXCEPT !.phase = "thrown",
                                  !.errors = Append(@, error),
                                  !.thrown = <<ThrownError(rx.errors, error)>>]

\* What a request of EWSClient.makeEWSRequest can end in without a usable
\* answer: an HTTP status outside 2xx, the AbortSignal.timeout of the
\* request firing, or fetch failing to reach the server.
RequestFailures == {"http404", "http429", "http500", "http503", "timeout", "network"}

HttpStatusOf(failure) ==
    CASE failure = "http404" -> 404
      [] failure = "http429" -> 429
      [] failure = "http500" -> 500
      [] OTHER -> 503

\* `HTTP ${response.status}: ${response.statusText}`
HttpErrorMessage(status) ==
    CASE status = 404 -> <<"HTTP", "404:", "Not", "Found">>
      [] status = 429 -> <<"HTTP", "429:", "Too", "Many", "Requests">>
      [] status = 500 -> <<"HTTP", "500:", "Internal", "Server", "Error">>
      [] OTHER -> <<"HTTP", "503:", "Service", "Unavailable">>

\* the messages of the DOMException (name TimeoutError) with which fetch
\* rejects when the signal of AbortSignal.timeout fires
TimeoutMessages ==
    { <<"The", "operation", "timed", "out.">>, <<"signal", "timed", "out">> }

\* EWSClient.makeEWSRequest: the error it throws.  For an HTTP failure it
\* is new Error(`HTTP ...`), which carries the status in its message only;
\* for a timeout or a transport failure it is the rejection of fetch.
makeEWSRequestError(failure, timeoutMessage) ==
    CASE failure = "timeout" -> [message |-> timeoutMessage, status |-> NoStatus]
      [] failure = "network" ->
            [message |-> <<"NetworkError", "when", "attempting", "to", "fetch", "resource.">>,
             status |-> NoStatus]
      [] OTHER -> [message |-> HttpErrorMessage(HttpStatusOf(failure)), status |-> NoStatus]

\* the awaited operation is a request of the EWS client that fails: the
\* client's method rethrows the error of makeEWSRequest into the catch block
EWSRequestFails ==
    /\ rx.phase = "invoking"
    /\ \E failure \in RequestFailures, timeoutMessage \in TimeoutMessages :
         LET e == makeEWSRequestError(failure, timeoutMessage)
             error == [message |-> e.message, status |-> e.status,
                       attempt |-> rx.retryCount + 1, cause |-> failure]
         IN IF ShouldRetry(error, rx.retryCount)
            THEN rx' = [rx EXCEPT !.phase = "sleeping",
                                  !.errors = Append(@, error),
                                  !.trace = Append(@, SleepEvent(BackoffDelay(rx.retryCount)))]
            ELSE rx' = [rx EXCEPT !.phase = "thrown",
                                  !.errors = Append(@, error),
                                  !.thrown = <<ThrownError(rx.errors, error)>>]

\* the sleep elapses: executeWithRetry(operation, retryCount + 1) invokes again
SleepElapses ==
    /\ rx.phase = "sleeping"
    /\ rx' = [rx EXCEPT !.phase = "invoking",
                        !.retryCount = @ + 1,
                        !.trace = Append(@, InvokeEvent(rx.retryCount + 2))]

NextRetry ==
    \/ RetryCall /\ UNCHANGED <<keyVars, engineVars, dataVars, coordVars>>
    \/ OperationSucceeds /\ UNCHANGED <<keyVars, engineVars, dataVars, coordVars>>
    \/ OperationFails /\ UNCHANGED <<keyVars, engineVars, dataVars, coordVars>>
    \/ EWSRequestFails /\ UNCHANGED <<keyVars, engineVars, dataVars, coordVars>>
    \/ SleepElapses /\ UNCHANGED <<keyVars, engineVars, dataVars, coordVars>>

\* number of times the operation has been invoked
Invocations == Cardinality({i \in 1..Len(rx.trace) : rx.trace[i].kind = "invoke"})

\* number of backoff waits started
Sleeps == Cardinality({i \in 1..Len(rx.trace) : rx.trace[i].kind = "sleep"})

SpecRetry == InitRetry /\ [][NextRetry]_vars

(***************************************************************************)
(* Claims C8 - C10: the retry wrapper                                      *)
(***************************************************************************)
ExpectedDelays == <<1000, 2000, 4000>>

\* C8: when the operation fails with retryable errors on its first k
\* invocations and then succeeds, the call returns the success result after
\* exactly k+1 invocations, and the trace is invoke, sleep(1000),
\* invoke, sleep(2000), ..., invoke: the i-th wait is base * 2^(i-1) and
\* stands between the i-th and the (i+1)-th invocation.  Up to the spec's
\* case of k = 2 retryable failures the call never gives up.
C8_RetryThenSuccess ==
    /\ rx.phase = "returned" =>
         LET k == Len(rx.errors)
         IN /\ rx.result = "success"
            /\ Invocations = k + 1
            /\ Len(rx.trace) = 2 * k + 1
            /\ \A i \in 1..(k + 1) : rx.trace[2 * i - 1] = InvokeEvent(i)
            /\ \A i \in 1..k : rx.trace[2 * i] = SleepEvent(ExpectedDelays[i])
    /\ (rx.phase = "thrown" /\ Len(rx.errors) <= 2) =>
         \E i \in 1..Len(rx.errors) : ~isRetryableError(rx.errors[i])

\* the spec's case: two 503 failures, then success
C8_Witness ==
    /\ rx.phase = "returned"
    /\ Len(rx.errors) = 2
    /\ \A i \in 1..2 : rx.errors[i].status = 503

\* C9 as stated: the operation is never invoked more than 3 times in total.
C9_AtMostThreeInvocations == Invocations <= 3

\* C9 amended: the operation is never invoked more than 4 times in total:
\* one first attempt and at most maxRetries = 3 retries.
C9_AtMostFourInvocations == Invocations <= 4

\* an operation that failed with a retryable error on every invocation
C9_Witness ==
    /\ rx.phase = "thrown"
    /\ Invocations = 4
    /\ \A i \in 1..Len(rx.errors) : isRetryableError(rx.errors[i])

\* C10: a failure that isRetryableError classifies as non-retryable ends the
\* call at once: it is the last event of the call, no wait and no further
\* invocation follows it, and that same error is thrown; when it is the
\* first failure the operation was invoked exactly once and nothing slept.
C10_NonRetryablePropagates ==
    \A i \in 1..Len(rx.errors) :
        ~isRetryableError(rx.errors[i]) =>
            /\ i = Len(rx.errors)
            /\ rx.phase = "thrown"
            /\ rx.thrown = <<rx.errors[i]>>
            /\ Invocations = i
            /\ Sleeps = i - 1
            /\ rx.trace[Len(rx.trace)] = InvokeEvent(i)

C10_Witness ==
    /\ rx.phase = "thrown"
    /\ Len(rx.errors) = 1
    /\ ~isRetryableError(rx.errors[1])
    /\ Invocations = 1
    /\ Sleeps = 0

\* C11: whenever the call throws after exhausting its retries, the error
\* thrown to the caller is the error raised by the last invocation of the
\* operation: the same value (attempt number included), not the error of
\* an earlier attempt and not a wrapper around it.
C11_LastErrorPropagates ==
    rx.phase = "thrown" =>
        /\ Len(rx.thrown) = 1
        /\ rx.thrown[1] = rx.errors[Len(rx.errors)]
        /\ rx.thrown[1].attempt = Invocations

\* retries exhausted, with a last error that differs from the earlier ones
C11_Witness ==
    /\ rx.phase = "thrown"
    /\ Invocations = maxRetries + 1
    /\ isRetryableError(rx.errors[Len(rx.errors)])
    /\ rx.errors[1].message # rx.errors[Len(rx.errors)].message

\* the request failures the spec lists as retryable: HTTP 5xx, HTTP 429 and
\* the per-request timeout
RetryableRequestFailures == {"http429", "http500", "http503", "timeout"}

\* C12: when a request of makeEWSRequest fails inside an operation because
\* the server answered HTTP 5xx or HTTP 429, or because the per-request
\* timeout fired, the error thrown is classified retryable by
\* isRetryableError and, retries remaining, the operation is attempted
\* again instead of the error being thrown to the caller.
C12_RemoteFailuresRetryable ==
    \A i \in 1..Len(rx.errors) :
        rx.errors[i].cause \in RetryableRequestFailures =>
            /\ isRetryableError(rx.errors[i])
            /\ (i <= maxRetries => ~(rx.phase = "thrown" /\ i = Len(rx.errors)))

\* what does hold: a request that could not reach the server is retried
C12_NetworkFailureRetryable ==
    \A i \in 1..Len(rx.errors) :
        rx.errors[i].cause = "network" => isRetryableError(rx.errors[i])

(***************************************************************************)
(* Item shapes, converters and dedup keys                                  *)
(***************************************************************************)
\* Date strings as the remote delivers them ("" when the element is
\* missing), and the instant each one denotes, in model time units.
NoDate == ""
DateStrings == {"2024-01-01T00:00:00Z", "2024-01-01T01:00:00+01:00", "2024-01-02T00:00:00Z"}

\* new Date(s).getTime() for the date strings of the model
ParseDate(s) ==
    CASE s = "2024-01-01T00:00:00Z" -> 10
      [] s = "2024-01-01T01:00:00+01:00" -> 10
      [] s = "2024-01-02T00:00:00Z" -> 24
      [] OTHER -> 0

\* the values Date.now() takes while the model runs
NowValues == {31, 32}

RECURSIVE NumStr(_)
\* String(n) for n >= 0: the decimal digits
NumStr(n) ==
    LET digit(d) == CASE d = 0 -> "0" [] d = 1 -> "1" [] d = 2 -> "2" [] d = 3 -> "3"
                      [] d = 4 -> "4" [] d = 5 -> "5" [] d = 6 -> "6" [] d = 7 -> "7"
                      [] d = 8 -> "8" [] OTHER -> "9"
    IN IF n < 10 THEN <<digit(n)>> ELSE NumStr(n \div 10) \o <<digit(n % 10)>>

noSubject == <<"n", "o", "-", "s", "u", "b", "j", "e", "c", "t">>

\* a || b on strings
Or(a, b) == IF Truthy(a) THEN a ELSE b

\* --- contacts ---------------------------------------------------------
\* ContactSync.convertExchangeContact: copies each field that is truthy on
\* the remote contact; a field left out is absent (<<>>) on the result.
convertExchangeContactMutDropsEmail(exchangeContact) ==
    [DisplayName |-> exchangeContact.displayName,
     FirstName |-> exchangeContact.firstName,
     LastName |-> exchangeContact.lastName,
     PrimaryEmail |-> <<>>,
     WorkPhone |-> exchangeContact.phone,
     Company |-> exchangeContact.company]

convertExchangeContact(exchangeContact) ==
    [DisplayName |-> IF Truthy(exchangeContact.displayName) THEN exchangeContact.displayName ELSE <<>>,
     FirstName |-> IF Truthy(exchangeContact.firstName) THEN exchangeContact.firstName ELSE <<>>,
     LastName |-> IF Truthy(exchangeContact.lastName) THEN exchangeContact.lastName ELSE <<>>,
     PrimaryEmail |-> IF Truthy(exchangeContact.email) THEN exchangeContact.email ELSE <<>>,
     WorkPhone |-> IF Truthy(exchangeContact.phone) THEN exchangeContact.phone ELSE <<>>,
     Company |-> IF Truthy(exchangeContact.company) THEN exchangeContact.company ELSE <<>>]

\* ContactSync.convertThunderbirdContact
convertThunderbirdContact(props) ==
    [displayName |-> IF Truthy(props.DisplayName) THEN props.DisplayName ELSE <<>>,
     firstName |-> IF Truthy(props.FirstName) THEN props.FirstName ELSE <<>>,
     lastName |-> IF Truthy(props.LastName) THEN props.LastName ELSE <<>>,
     email |-> IF Truthy(props.PrimaryEmail) THEN props.PrimaryEmail ELSE <<>>,
     phone |-> IF Truthy(props.WorkPhone) THEN props.WorkPhone ELSE <<>>,
     company |-> IF Truthy(props.Company) THEN props.Company ELSE <<>>]

\* ContactSync.generateContactKey
generateContactKey(props) ==
    IF Truthy(props.PrimaryEmail)
    THEN toLowerCase(props.PrimaryEmail)
    ELSE toLowerCase(trim(props.FirstName \o <<" ">> \o props.LastName
                          \o <<" ">> \o props.DisplayName))

\* ContactSync.generateContactKeyFromExchange
generateContactKeyFromExchange(exchangeContact) ==
    IF Truthy(exchangeContact.email)
    THEN toLowerCase(exchangeContact.email)
    ELSE toLowerCase(trim(exchangeContact.firstName \o <<" ">> \o exchangeContact.lastName
                          \o <<" ">> \o exchangeContact.displayName))

\* --- mail ---------------------------------------------------------------
\* A local date is <<ms>> (a Date object) or <<>> (no date).
\* EmailSync.convertExchangeMessage, the fields the keys read
convertExchangeMessage(exchangeMessage, now) ==
    [subject |-> exchangeMessage.subject,
     date |-> IF exchangeMessage.dateTimeReceived # NoDate
              THEN <<ParseDate(exchangeMessage.dateTimeReceived)>> ELSE <<now>>,
     headerMessageId |-> <<>>,
     MessageID |-> exchangeMessage.id]

\* The header Thunderbird lists for the message stored from the raw text
\* createRawMessage builds: the Message-ID header becomes headerMessageId.
storedMessageHeader(message) ==
    [subject |-> message.subject,
     date |-> message.date,
     headerMessageId |-> message.MessageID,
     MessageID |-> message.MessageID]

\* EmailSync.generateMessageKey
generateMessageKey(message) ==
    IF Truthy(message.headerMessageId)
    THEN message.headerMessageId
    ELSE Or(message.subject, noSubject) \o <<"-">>
         \o NumStr(IF message.date # <<>> THEN message.date[1] ELSE 0)

\* EmailSync.generateMessageKeyFromExchange
generateMessageKeyFromExchange(exchangeMessage) ==
    Or(exchangeMessage.subject, noSubject) \o <<"-">>
    \o NumStr(IF exchangeMessage.dateTimeReceived # NoDate
              THEN ParseDate(exchangeMessage.dateTimeReceived) ELSE 0)

\* --- calendar -----------------------------------------------------------
\* CalendarSync.convertFreeBusyStatus
convertFreeBusyStatus(freeBusyStatus) ==
    CASE freeBusyStatus = "Free" -> "available"
      [] freeBusyStatus = "Tentative" -> "tentative"
      [] freeBusyStatus = "Busy" -> "busy"
      [] freeBusyStatus = "OOF" -> "out-of-office"
      [] freeBusyStatus = "WorkingElsewhere" -> "working-elsewhere"
      [] OTHER -> "busy"

convertStatusToFreeBusyMutNoOOF(status) ==
    CASE status = "available" -> "Free"
      [] status = "tentative" -> "Tentative"
      [] status = "busy" -> "Busy"
      [] status = "working-elsewhere" -> "WorkingElsewhere"
      [] OTHER -> "Busy"

\* CalendarSync.convertStatusToFreeBusy
convertStatusToFreeBusy(status) ==
    CASE status = "available" -> "Free"
      [] status = "tentative" -> "Tentative"
      [] status = "busy" -> "Busy"
      [] status = "out-of-office" -> "OOF"
      [] status = "working-elsewhere" -> "WorkingElsewhere"
      [] OTHER -> "Busy"

\* CalendarSync.convertThunderbirdCalendarItem (the items of the model
\* carry no description; start and end are Date objects, <<ms>>)
convertThunderbirdCalendarItem(thunderbirdItem, now) ==
    [subject |-> Or(thunderbirdItem.subject, thunderbirdItem.title),
     body |-> thunderbirdItem.body,
     start |-> IF thunderbirdItem.startDate # <<>> THEN thunderbirdItem.startDate ELSE <<now>>,
     end |-> IF thunderbirdItem.endDate # <<>> THEN thunderbirdItem.endDate ELSE <<now>>,
     location |-> thunderbirdItem.location,
     freeBusyStatus |-> convertStatusToFreeBusy(thunderbirdItem.status),
     bodyType |-> "Text"]

\* CalendarSync.convertExchangeCalendarItem
convertExchangeCalendarItem(exchangeItem, now) ==
    [subject |-> exchangeItem.subject,
     title |-> exchangeItem.subject,
     body |-> exchangeItem.body,
     startDate |-> IF exchangeItem.start # NoDate THEN <<ParseDate(exchangeItem.start)>> ELSE <<now>>,
     endDate |-> IF exchangeItem.end # NoDate THEN <<ParseDate(exchangeItem.end)>> ELSE <<now>>,
     location |-> exchangeItem.location,
     status |-> convertFreeBusyStatus(exchangeItem.freeBusyStatus),
     exchangeId |-> exchangeItem.id]

\* CalendarSync.generateCalendarItemKey
generateCalendarItemKey(thunderbirdItem) ==
    Or(thunderbirdItem.subject, Or(thunderbirdItem.title, noSubject)) \o <<"-">>
    \o NumStr(IF thunderbirdItem.startDate # <<>> THEN thunderbirdItem.startDate[1] ELSE 0)

\* CalendarSync.generateCalendarItemKeyFromExchange
generateCalendarItemKeyFromExchange(exchangeItem) ==
    Or(exchangeItem.subject, noSubject) \o <<"-">>
    \o NumStr(IF exchangeItem.start # NoDate THEN ParseDate(exchangeItem.start) ELSE 0)

(***************************************************************************)
(* SpecKeys: the key functions applied to every remote item of a bounded   *)
(* universe, on the remote item itself and on its converted local form.    *)
(***************************************************************************)
ExContactInputs ==
    [id : {<<"c", "1">>},
     displayName : {<<>>, <<"A">>, <<" ">>, <<"A", " ", "B">>},
     firstName : {<<>>, <<"F">>},
     lastName : {<<>>, <<"S">>},
     email : {<<>>, <<"a", "@", "x">>, <<"A", "@", "x">>, <<" ">>},
     phone : {<<>>},
     company : {<<>>}]

ExMessageInputs ==
    [id : {<<"m", "1">>, <<>>},
     subject : {<<>>, <<"s">>, <<"S", "-", "1", "0">>},
     dateTimeReceived : DateStrings \cup {NoDate}]

ExCalendarInputs ==
    [id : {<<"e", "1">>},
     subject : {<<>>, <<"s">>},
     body : {<<>>},
     start : DateStrings \cup {NoDate},
     end : {NoDate, "2024-01-02T00:00:00Z"},
     location : {<<>>, <<"B">>},
     freeBusyStatus : {"Busy", "OOF"}]

InitKeys ==
    /\ \/ \E r \in ExContactInputs : kx = [stage |-> "input", entity |-> "contact", input |-> r]
       \/ \E r \in ExMessageInputs : kx = [stage |-> "input", entity |-> "message", input |-> r]
       \/ \E r \in ExCalendarInputs : kx = [stage |-> "input", entity |-> "calendar", input |-> r]
    /\ rx = RetryIdle
    /\ cx = CoordIdle
    /\ syncState = <<>>
    /\ lastSyncTimestamp = <<>>
    /\ calls = <<>>
    /\ clock = 0
    /\ tbStore = <<>>
    /\ exStore = <<>>
    /\ run = RunUnused
    /\ runResults = <<>>
    /\ storeLog = <<>>

Keyed(entity, input, local, localKey, remoteKey) ==
    [stage |-> "keyed", entity |-> entity, input |-> input, local |-> local,
     localKey |-> localKey, remoteKey |-> remoteKey]

\* contact: key of the converted contact and key of the remote contact
ApplyContactKeys ==
    /\ kx.stage = "input" /\ kx.entity = "contact"
    /\ LET local == convertExchangeContact(kx.input)
       IN kx' = Keyed("contact", kx.input, local, generateContactKey(local),
                      generateContactKeyFromExchange(kx.input))

\* message: key of the local message made from the remote one, either the
\* converted object or the header Thunderbird lists once it is stored
ApplyMessageKeys ==
    /\ kx.stage = "input" /\ kx.entity = "message"
    /\ \E now \in NowValues, stored \in BOOLEAN :
         LET converted == convertExchangeMessage(kx.input, now)
             local == IF stored THEN storedMessageHeader(converted) ELSE converted
         IN kx' = Keyed("message", kx.input, local, generateMessageKey(local),
                        generateMessageKeyFromExchange(kx.input))

\* calendar item: key of the converted item and key of the remote item
ApplyCalendarKeys ==
    /\ kx.stage = "input" /\ kx.entity = "calendar"
    /\ \E now \in NowValues :
         LET local == convertExchangeCalendarItem(kx.input, now)
         IN kx' = Keyed("calendar", kx.input, local, generateCalendarItemKey(local),
                        generateCalendarItemKeyFromExchange(kx.input))

NextKeys ==
    \/ ApplyContactKeys /\ UNCHANGED <<retryVars, engineVars, dataVars, coordVars>>
    \/ ApplyMessageKeys /\ UNCHANGED <<retryVars, engineVars, dataVars, coordVars>>
    \/ ApplyCalendarKeys /\ UNCHANGED <<retryVars, engineVars, dataVars, coordVars>>

SpecKeys == InitKeys /\ [][NextKeys]_vars

\* C7: for every remote item of each entity type, the key of the local item
\* made from it equals the key of the remote item itself.
C7_KeyAgreement == kx.stage = "keyed" => kx.localKey = kx.remoteKey

\* C7 restricted to contacts, where the two key functions do agree
C7_ContactKeysAgree ==
    (kx.stage = "keyed" /\ kx.entity = "contact") => kx.localKey = kx.remoteKey

(***************************************************************************)
(* SpecEngine: sync(account) and incrementalSync(account) calls on the     *)
(* three engines.  A call advances from one await to the next; what runs   *)
(* between two awaits is one step.  The passes are abstract here: a pass   *)
(* either completes or lets an exception escape.                           *)
(***************************************************************************)
Engines == {"email", "contacts", "calendar"}
Accounts == {"acct1", "acct2"}

\* number of calls made in one behaviour
MaxCalls == 3
CallIds == 1..MaxCalls

\* pc of a call: the await it is suspended at
\*   container  getThunderbirdAccount / getOrCreateAddressBook / getOrCreateCalendar
\*   folders    EmailSync.syncFolderStructure
\*   pull       syncExchangeToThunderbird, or EmailSync.syncAllFolders
\*   push       syncThunderbirdToExchange
\*   incWork    EmailSync.getNewMessages / ContactSync.syncNewContacts
RunningPcs == {"container", "folders", "pull", "push", "incWork"}
PassPcs == {"pull", "push"}

NewCall ==
    [pc |-> "new", engine |-> "none", account |-> "none", kind |-> "none",
     body |-> "none", result |-> "none", error |-> "", storeCalls |-> 0]

\* syncState.get(accountId) when the Map holds no entry
NoState == [has |-> FALSE, inProgress |-> FALSE, lastError |-> "", statistics |-> 0]

\* the engines as constructed: both Maps empty
InitEngine ==
    /\ syncState = [e \in Engines |-> [a \in Accounts |-> NoState]]
    /\ lastSyncTimestamp = [e \in Engines |-> [a \in Accounts |-> 0]]
    /\ calls = [c \in CallIds |-> NewCall]
    /\ clock = 0
    /\ rx = RetryIdle
    /\ cx = CoordIdle
    /\ kx = KeysIdle
    /\ tbStore = <<>>
    /\ exStore = <<>>
    /\ run = RunUnused
    /\ runResults = <<>>
    /\ storeLog = <<>>

AlreadyInProgressMutNoGuard(e, a) == FALSE

\* const state = this.syncState.get(account.id); state && state.inProgress
AlreadyInProgress(e, a) == syncState[e][a].has /\ syncState[e][a].inProgress

\* updateSyncState(accountId, {inProgress: true, lastError: null})
MarkInProgress(st) == [st EXCEPT !.has = TRUE, !.inProgress = TRUE, !.lastError = ""]

MarkSuccessMutStaysInProgress(st, stats) == [st EXCEPT !.has = TRUE, !.statistics = stats]

\* updateSyncState(accountId, {inProgress: false, statistics: {...}})
MarkSuccess(st, stats) == [st EXCEPT !.has = TRUE, !.inProgress = FALSE, !.statistics = stats]

MarkErrorMutClearsStatistics(st, message) ==
    [st EXCEPT !.has = TRUE, !.inProgress = FALSE, !.lastError = message, !.statistics = 0]

MarkErrorMutStaysInProgress(st, message) == [st EXCEPT !.has = TRUE, !.lastError = message]

\* updateSyncState(accountId, {inProgress: false, lastError: error.message})
MarkError(st, message) == [st EXCEPT !.has = TRUE, !.inProgress = FALSE, !.lastError = message]

\* Calls are numbered in the order they are made.  The engines are three
\* objects that share no state, so one behaviour follows the calls made on
\* one of them, the engine of the first call.
MayStart(c, e) ==
    /\ calls[c].pc = "new"
    /\ IF c = 1 THEN TRUE ELSE calls[c - 1].pc # "new" /\ calls[c - 1].engine = e

\* the body of sync(account) up to its first await, entered by call c
EnterSync(c, e, a, kind) ==
    IF AlreadyInProgress(e, a)
    THEN /\ calls' = [calls EXCEPT ![c] = [NewCall EXCEPT !.pc = "returned", !.engine = e,
                                            !.account = a, !.kind = kind, !.body = "full",
                                            !.result = "rejected",
                                            !.error = "Sync already in progress"]]
         /\ UNCHANGED <<syncState, lastSyncTimestamp, clock>>
    ELSE /\ syncState' = [syncState EXCEPT ![e][a] = MarkInProgress(@)]
         /\ calls' = [calls EXCEPT ![c] = [NewCall EXCEPT !.pc = "container", !.engine = e,
                                            !.account = a, !.kind = kind, !.body = "full"]]
         /\ UNCHANGED <<lastSyncTimestamp, clock>>

\* sync(account) is called
CallSync(c, e, a) ==
    /\ MayStart(c, e)
    /\ EnterSync(c, e, a, "sync")

\* incrementalSync(account) is called: full sync when no lastSyncTimestamp
CallIncrementalSync(c, e, a) ==
    /\ MayStart(c, e)
    /\ IF lastSyncTimestamp[e][a] = 0
       THEN EnterSync(c, e, a, "incrementalSync")
       ELSE /\ calls' = [calls EXCEPT ![c] = [NewCall EXCEPT !.pc = "container", !.engine = e,
                                               !.account = a, !.kind = "incrementalSync",
                                               !.body = "incremental"]]
            /\ UNCHANGED <<syncState, lastSyncTimestamp, clock>>

\* store calls made while resolving the container: browser.accounts.list /
\* browser.addressBooks.list; the calendar is a literal object
ContainerStoreCalls(e) == IF e = "calendar" THEN 0 ELSE 1

\* an accepted call's catch block (sync), or the bare rethrow (incrementalSync)
EngineError(c, message) ==
    LET e == calls[c].engine
        a == calls[c].account
    IN /\ calls' = [calls EXCEPT ![c].pc = "thrown", ![c].result = "error",
                                 ![c].error = message]
       /\ syncState' = IF calls[c].body = "full"
                       THEN [syncState EXCEPT ![e][a] = MarkError(@, message)]
                       ELSE syncState
       /\ UNCHANGED <<lastSyncTimestamp, clock>>

\* the end of sync (statistics, timestamp) or of incrementalSync (timestamp)
Finish(c) ==
    LET e == calls[c].engine
        a == calls[c].account
    IN /\ calls' = [calls EXCEPT ![c].pc = "returned", ![c].result = "success"]
       /\ syncState' = IF calls[c].body = "full"
                       THEN [syncState EXCEPT ![e][a] = MarkSuccess(@, c)]
                       ELSE syncState
       /\ clock' = clock + 1
       /\ lastSyncTimestamp' = [lastSyncTimestamp EXCEPT ![e][a] = clock + 1]

\* the container is resolved
ContainerResolved(c) ==
    /\ calls[c].pc = "container"
    /\ LET e == calls[c].engine
           next == IF calls[c].body = "full"
                   THEN (IF e = "email" THEN "folders" ELSE "pull")
                   ELSE (IF e = "calendar" THEN "pull" ELSE "incWork")
       IN calls' = [calls EXCEPT ![c].pc = next,
                                 ![c].storeCalls = @ + ContainerStoreCalls(e)]
    /\ UNCHANGED <<syncState, lastSyncTimestamp, clock>>

\* the container cannot be resolved: no Thunderbird account, or the address
\* book calls throw; getOrCreateCalendar cannot fail
ContainerFails(c) ==
    /\ calls[c].pc = "container"
    /\ calls[c].engine # "calendar"
    /\ EngineError(c, IF calls[c].engine = "email" THEN "Thunderbird account not found"
                      ELSE "addressBooks failed")

\* EmailSync.syncFolderStructure completes
FoldersSynced(c) ==
    /\ calls[c].pc = "folders"
    /\ calls' = [calls EXCEPT ![c].pc = "pull", ![c].storeCalls = @ + 1]
    /\ UNCHANGED <<syncState, lastSyncTimestamp, clock>>

\* EmailSync.syncFolderStructure throws
FoldersFail(c) ==
    /\ calls[c].pc = "folders"
    /\ EngineError(c, "Failed to get Exchange folder hierarchy")

\* the remote->local pass completes (for mail: syncAllFolders, the last step)
PullDone(c) ==
    /\ calls[c].pc = "pull"
    /\ IF calls[c].engine = "email"
       THEN Finish(c)
       ELSE /\ calls' = [calls EXCEPT ![c].pc = "push", ![c].storeCalls = @ + 1]
            /\ UNCHANGED <<syncState, lastSyncTimestamp, clock>>

\* an exception escapes the remote->local pass
PullFails(c) ==
    /\ calls[c].pc = "pull"
    /\ EngineError(c, "pull failed")

\* the local->remote pass completes
PushDone(c) ==
    /\ calls[c].pc = "push"
    /\ Finish(c)

\* an exception escapes the local->remote pass
PushFails(c) ==
    /\ calls[c].pc = "push"
    /\ EngineError(c, "push failed")

\* getNewMessages / syncNewContacts return: nothing to do
IncWorkDone(c) ==
    /\ calls[c].pc = "incWork"
    /\ Finish(c)

NextEngine ==
    \/ \E c \in CallIds, e \in Engines, a \in Accounts :
            CallSync(c, e, a) /\ UNCHANGED <<retryVars, keyVars, dataVars, coordVars>>
    \/ \E c \in CallIds, e \in Engines, a \in Accounts :
            CallIncrementalSync(c, e, a) /\ UNCHANGED <<retryVars, keyVars, dataVars, coordVars>>
    \/ \E c \in CallIds : ContainerResolved(c) /\ UNCHANGED <<retryVars, keyVars, dataVars, coordVars>>
    \/ \E c \in CallIds : ContainerFails(c) /\ UNCHANGED <<retryVars, keyVars, dataVars, coordVars>>
    \/ \E c \in CallIds : FoldersSynced(c) /\ UNCHANGED <<retryVars, keyVars, dataVars, coordVars>>
    \/ \E c \in CallIds : FoldersFail(c) /\ UNCHANGED <<retryVars, keyVars, dataVars, coordVars>>
    \/ \E c \in CallIds : PullDone(c) /\ UNCHANGED <<retryVars, keyVars, dataVars, coordVars>>
    \/ \E c \in CallIds : PullFails(c) /\ UNCHANGED <<retryVars, keyVars, dataVars, coordVars>>
    \/ \E c \in CallIds : PushDone(c) /\ UNCHANGED <<retryVars, keyVars, dataVars, coordVars>>
    \/ \E c \in CallIds : PushFails(c) /\ UNCHANGED <<retryVars, keyVars, dataVars, coordVars>>
    \/ \E c \in CallIds : IncWorkDone(c) /\ UNCHANGED <<retryVars, keyVars, dataVars, coordVars>>

SpecEngine == InitEngine /\ [][NextEngine]_vars

\* the calls that entered sync(account) on (e, a) and have not finished
SyncsInFlight(e, a) ==
    {c \in CallIds : /\ calls[c].engine = e /\ calls[c].account = a
                     /\ calls[c].body = "full" /\ calls[c].pc \in RunningPcs}

\* the calls executing a reconciliation pass on (e, a)
PassesRunning(e, a) ==
    {c \in CallIds : /\ calls[c].engine = e /\ calls[c].account = a
                     /\ calls[c].pc \in PassPcs}

(***************************************************************************)
(* Claims C1, C2: the single-flight guard                                  *)
(***************************************************************************)
\* call c enters sync(account) in this step, directly or through
\* incrementalSync delegating to it
EntersSync(c) == calls[c].pc = "new" /\ calls'[c].pc # "new" /\ calls'[c].body = "full"

\* C1: a sync(account) call made while an earlier sync call for the same
\* account on the same engine has not finished returns
\* {success: false, error: 'Sync already in progress'}, makes no store call
\* and leaves the engine's SyncState (and timestamps) as they were, the first
\* call still marked in progress; a rejected call never makes a store call.
C1_SingleFlightRejection ==
    /\ [][\A c \in CallIds, e \in Engines, a \in Accounts :
            (/\ EntersSync(c)
             /\ calls'[c].engine = e /\ calls'[c].account = a
             /\ SyncsInFlight(e, a) # {}) =>
                /\ calls'[c].pc = "returned"
                /\ calls'[c].result = "rejected"
                /\ calls'[c].error = "Sync already in progress"
                /\ calls'[c].storeCalls = 0
                /\ syncState' = syncState
                /\ lastSyncTimestamp' = lastSyncTimestamp
                /\ syncState'[e][a].inProgress
                /\ SyncsInFlight(e, a)' = SyncsInFlight(e, a)]_vars
    /\ [](\A c \in CallIds : calls[c].result = "rejected" => calls[c].storeCalls = 0)

\* a sync is suspended in its remote->local pass and a second sync call for
\* the same account on the same engine has been rejected
C1_Witness ==
    \E c1, c2 \in CallIds :
        /\ c1 < c2
        /\ calls[c1].engine = calls[c2].engine /\ calls[c1].account = calls[c2].account
        /\ calls[c1].kind = "sync" /\ calls[c1].pc = "pull"
        /\ calls[c2].kind = "sync" /\ calls[c2].result = "rejected"

\* C2: at most one reconciliation pass executes for an (engine, account)
\* pair at any time, whatever the interleaving of sync and incrementalSync.
C2_OnePassPerAccount ==
    \A e \in Engines, a \in Accounts : Cardinality(PassesRunning(e, a)) <= 1

\* C2 holds between sync calls alone: two calls that entered sync(account)
\* for the same pair are never both running
C2_OneSyncInFlight ==
    \A e \in Engines, a \in Accounts : Cardinality(SyncsInFlight(e, a)) <= 1

\* C16: when an exception escapes the passes of an accepted sync (the
\* container cannot be resolved, a pass lets an exception out), the
\* engine sets inProgress = false and lastError to the exception's
\* message, leaves statistics and lastSyncTimestamp as they were, and
\* throws that same exception to the caller of sync.
C16_EngineErrorRecorded ==
    [][\A c \in CallIds :
          (calls[c].pc \in RunningPcs /\ calls[c].body = "full" /\ calls'[c].pc = "thrown") =>
              LET e == calls[c].engine
                  a == calls[c].account
              IN /\ calls'[c].result = "error"
                 /\ calls'[c].error # ""
                 /\ syncState'[e][a].has
                 /\ syncState'[e][a].inProgress = FALSE
                 /\ syncState'[e][a].lastError = calls'[c].error
                 /\ syncState'[e][a].statistics = syncState[e][a].statistics
                 /\ lastSyncTimestamp' = lastSyncTimestamp]_vars

\* an accepted sync whose remote-to-local pass let an exception out
C16_Witness ==
    \E c \in CallIds :
        /\ calls[c].pc = "thrown"
        /\ calls[c].body = "full"
        /\ calls[c].error = "pull failed"
        /\ syncState[calls[c].engine][calls[c].account].lastError = "pull failed"
        /\ ~syncState[calls[c].engine][calls[c].account].inProgress

\* C17, the other direction: a call of sync or incrementalSync ends
\* without success only by the already-in-progress rejection, decided at
\* entry, or by an exception that escaped its passes
C17_FailureOnlyByRejectionOrException ==
    [][\A c \in CallIds :
          (calls[c].result = "none" /\ calls'[c].result \notin {"none", "success"}) =>
              \/ /\ calls[c].pc = "new"
                 /\ calls'[c].result = "rejected"
                 /\ calls'[c].pc = "returned"
                 /\ calls'[c].body = "full"
                 /\ AlreadyInProgress(calls'[c].engine, calls'[c].account)
              \/ /\ calls[c].pc \in RunningPcs
                 /\ calls'[c].result = "error"
                 /\ calls'[c].pc = "thrown"]_vars

(***************************************************************************)
(* ContactSync.sync over the two stores.  The local store is the address   *)
(* book "Exchange - {displayName}" (browser.contacts), the remote store    *)
(* the account's contacts folder (getContacts / createContact /            *)
(* updateContact).  One run is sync(account) from start to return; the     *)
(* run is the only actor, so the per-item awaits of one loop are one step. *)
(***************************************************************************)
\* this.batchSize, the page size of the paginated loops: 100 for contacts
\* and 50 for mail in the code, scaled down here so that several pages occur
batchSize == 2

\* number of sync runs in one behaviour
MaxRuns == 2

\* sizes of the stores before the first run
MaxRemote == 3
MaxLocal == 1

Min(a, b) == IF a < b THEN a ELSE b

ZeroResults == [totalSynced |-> 0, created |-> 0, updated |-> 0, errors |-> 0]

AddResults(a, b) ==
    [totalSynced |-> a.totalSynced + b.totalSynced,
     created |-> a.created + b.created,
     updated |-> a.updated + b.updated,
     errors |-> a.errors + b.errors]

SyncReturnMutFailsOnErrors(syncResults) ==
    [success |-> syncResults.errors = 0,
     totalSynced |-> syncResults.totalSynced,
     created |-> syncResults.created,
     updated |-> syncResults.updated,
     errors |-> syncResults.errors]

\* the object sync returns at the end of its try block: success is the
\* literal true, the counts are those of the passes (duration left out)
SyncReturn(syncResults) ==
    [success |-> TRUE,
     totalSynced |-> syncResults.totalSynced,
     created |-> syncResults.created,
     updated |-> syncResults.updated,
     errors |-> syncResults.errors]

\* sleeps: for every sleep(100) of the run's page loops, the length of
\* storeLog when it was awaited
RunIdle(n) ==
    [pc |-> "idle", n |-> n, offset |-> 0, tbList |-> <<>>, exAll |-> <<>>,
     pull |-> ZeroResults, push |-> ZeroResults, tb0 |-> <<>>, ex0 |-> <<>>,
     sleeps |-> <<>>]

\* remote contacts, as extractContactInfo delivers them, without the id
ExContactUniverse ==
    { [displayName |-> <<"A">>, firstName |-> <<>>, lastName |-> <<>>,
       email |-> <<"a", "@", "x">>, phone |-> <<>>, company |-> <<>>],
      [displayName |-> <<"B">>, firstName |-> <<>>, lastName |-> <<>>,
       email |-> <<"A", "@", "x">>, phone |-> <<>>, company |-> <<>>],
      [displayName |-> <<"A">>, firstName |-> <<"F">>, lastName |-> <<>>,
       email |-> <<>>, phone |-> <<>>, company |-> <<>>],
      [displayName |-> <<" ">>, firstName |-> <<>>, lastName |-> <<>>,
       email |-> <<"b", "@", "x">>, phone |-> <<"1">>, company |-> <<>>],
      [displayName |-> <<"B">>, firstName |-> <<>>, lastName |-> <<>>,
       email |-> <<"b", "@", "x">>, phone |-> <<>>, company |-> <<>>] }

\* local contacts (the properties of a Thunderbird contact), without the id
TbContactUniverse ==
    { [DisplayName |-> <<"A">>, FirstName |-> <<>>, LastName |-> <<>>,
       PrimaryEmail |-> <<"a", "@", "x">>, WorkPhone |-> <<>>, Company |-> <<>>],
      [DisplayName |-> <<" ">>, FirstName |-> <<>>, LastName |-> <<>>,
       PrimaryEmail |-> <<"a", "@", "x">>, WorkPhone |-> <<>>, Company |-> <<>>],
      [DisplayName |-> <<"S">>, FirstName |-> <<>>, LastName |-> <<>>,
       PrimaryEmail |-> <<"s", "@", "x">>, WorkPhone |-> <<>>, Company |-> <<>>],
      [DisplayName |-> <<"A">>, FirstName |-> <<"F">>, LastName |-> <<>>,
       PrimaryEmail |-> <<>>, WorkPhone |-> <<>>, Company |-> <<"B">>] }

\* the sequences of up to n distinct elements of S
DistinctSeqs(S, n) ==
    {q \in UNION {[1..k -> S] : k \in 0..n} :
        \A i, j \in 1..Len(q) : i # j => q[i] # q[j]}

\* item i of a store carries id i
WithIds(q) == [i \in 1..Len(q) |-> ("id" :> i) @@ q[i]]

InitContacts ==
    /\ \E q \in DistinctSeqs(TbContactUniverse, MaxLocal) : tbStore = WithIds(q)
    /\ \E q \in DistinctSeqs(ExContactUniverse, MaxRemote) : exStore = WithIds(q)
    /\ run = RunIdle(1)
    /\ runResults = <<>>
    /\ storeLog = <<>>
    /\ rx = RetryIdle
    /\ cx = CoordIdle
    /\ kx = KeysIdle
    /\ syncState = <<>>
    /\ lastSyncTimestamp = <<>>
    /\ calls = <<>>
    /\ clock = 0

\* fieldsToCompare of needsUpdate and thunderbirdContactNeedsUpdate
fieldsToCompare ==
    << [tb |-> "DisplayName", ex |-> "displayName"],
       [tb |-> "FirstName", ex |-> "firstName"],
       [tb |-> "LastName", ex |-> "lastName"],
       [tb |-> "PrimaryEmail", ex |-> "email"],
       [tb |-> "WorkPhone", ex |-> "phone"],
       [tb |-> "Company", ex |-> "company"] >>

needsUpdateMutSkipsCompany(thunderbirdContact, exchangeContact) ==
    \E i \in 1..(Len(fieldsToCompare) - 1) :
        thunderbirdContact[fieldsToCompare[i].tb] # exchangeContact[fieldsToCompare[i].ex]

\* ContactSync.needsUpdate
needsUpdate(thunderbirdContact, exchangeContact) ==
    \E i \in 1..Len(fieldsToCompare) :
        thunderbirdContact[fieldsToCompare[i].tb] # exchangeContact[fieldsToCompare[i].ex]

\* ContactSync.thunderbirdContactNeedsUpdate
thunderbirdContactNeedsUpdate(thunderbirdContact, exchangeContact) ==
    \E i \in 1..Len(fieldsToCompare) :
        /\ thunderbirdContact[fieldsToCompare[i].tb] # exchangeContact[fieldsToCompare[i].ex]
        /\ trim(thunderbirdContact[fieldsToCompare[i].tb]) # <<>>

\* thunderbirdContactMap.get(key): the map is filled in list order, so the
\* last contact with the key wins; <<>> when the key is absent
TbMapGet(list, key) ==
    LET hits == {i \in 1..Len(list) : generateContactKey(list[i]) = key}
    IN IF hits = {} THEN <<>> ELSE <<list[CHOOSE i \in hits : \A j \in hits : j <= i]>>

\* exchangeContactMap.get(key)
ExMapGet(list, key) ==
    LET hits == {i \in 1..Len(list) : generateContactKeyFromExchange(list[i]) = key}
    IN IF hits = {} THEN <<>> ELSE <<list[CHOOSE i \in hits : \A j \in hits : j <= i]>>

\* browser.contacts.create(addressBook.id, newContact)
TbCreate(store, props) == Append(store, ("id" :> Len(store) + 1) @@ props)

\* browser.contacts.update(id, updatedContact): the properties given are
\* set, the others keep their value
TbUpdate(store, id, props) ==
    [i \in 1..Len(store) |->
        IF store[i].id = id
        THEN [f \in DOMAIN store[i] |->
                 IF f # "id" /\ props[f] # <<>> THEN props[f] ELSE store[i][f]]
        ELSE store[i]]

\* EWSClient.createContact: a new item with the fields of the request
ExCreate(store, contact) == Append(store, ("id" :> Len(store) + 1) @@ contact)

\* EWSClient.updateContact: one SetItemField per key of the update
ExUpdate(store, id, updates) ==
    [i \in 1..Len(store) |->
        IF store[i].id = id
        THEN [f \in DOMAIN store[i] |->
                 IF f # "id" /\ updates[f] # <<>> THEN updates[f] ELSE store[i][f]]
        ELSE store[i]]

hasMoreMutUntilEmpty(page) == Len(page) > 0

\* hasMore = exchangeContacts.contacts.length === this.batchSize
hasMore(page) == Len(page) = batchSize

\* a page request and an iteration of an item loop, as the log keeps them
RequestEntry(n, op, offset) == [run |-> n, op |-> op, id |-> offset, key |-> <<>>, item |-> <<>>]
ItemEntry(n, op, id, key) == [run |-> n, op |-> op, id |-> id, key |-> key, item |-> <<>>]

\* getContacts(account, {maxItems, offset}): one page of the remote folder
ContactsPage(offset, maxItems) ==
    SubSeq(exStore, offset + 1, Min(offset + maxItems, Len(exStore)))

LogEntry(n, op, id, key, item) == [run |-> n, op |-> op, id |-> id, key |-> key, item |-> item]

itemErrorMutCountsSynced(acc, op, id, key) ==
    [acc EXCEPT !.res.errors = @ + 1,
                !.res.totalSynced = @ + 1,
                !.log = Append(@, ItemEntry(acc.n, op, id, key))]

\* catch (error) of an item loop: results.errors++ and on to the next item
itemError(acc, op, id, key) ==
    [acc EXCEPT !.res.errors = @ + 1,
                !.log = Append(@, ItemEntry(acc.n, op, id, key))]

RECURSIVE PullItems(_, _, _, _, _)
\* the body of "for (const exchangeContact of exchangeContacts.contacts)":
\* acc holds the local store, the counters and the log; the store call of
\* item failAt throws (0: none does)
PullItems(page, i, tbMapList, failAt, acc) ==
    IF i > Len(page) THEN acc
    ELSE LET exchangeContact == page[i]
             contactKey == generateContactKeyFromExchange(exchangeContact)
             hit == TbMapGet(tbMapList, contactKey)
             converted == convertExchangeContact(exchangeContact)
             seen == [acc EXCEPT !.log = Append(@, ItemEntry(acc.n, "pull.item",
                                                              exchangeContact.id, contactKey))]
             failed == itemError(seen, "pull.error", exchangeContact.id, contactKey)
         IN IF hit # <<>>
            THEN IF needsUpdate(hit[1], exchangeContact)
                 THEN IF i = failAt
                      THEN PullItems(page, i + 1, tbMapList, failAt, failed)
                      ELSE PullItems(page, i + 1, tbMapList, failAt,
                               [seen EXCEPT !.store = TbUpdate(@, hit[1].id, converted),
                                            !.res.updated = @ + 1,
                                            !.res.totalSynced = @ + 1,
                                            !.log = Append(@, LogEntry(acc.n, "tb.update", hit[1].id,
                                                                       contactKey, converted))])
                 ELSE PullItems(page, i + 1, tbMapList, failAt, seen)
            ELSE IF i = failAt
                 THEN PullItems(page, i + 1, tbMapList, failAt, failed)
                 ELSE PullItems(page, i + 1, tbMapList, failAt,
                          [seen EXCEPT !.store = TbCreate(@, converted),
                                       !.res.created = @ + 1,
                                       !.res.totalSynced = @ + 1,
                                       !.log = Append(@, LogEntry(acc.n, "tb.create", Len(acc.store) + 1,
                                                                  contactKey, converted))])

RECURSIVE PushItems(_, _, _, _, _)
\* the body of "for (const thunderbirdContact of thunderbirdContacts)"
PushItems(list, i, exMapList, failAt, acc) ==
    IF i > Len(list) THEN acc
    ELSE LET thunderbirdContact == list[i]
             contactKey == generateContactKey(thunderbirdContact)
             hit == ExMapGet(exMapList, contactKey)
             converted == convertThunderbirdContact(thunderbirdContact)
             seen == [acc EXCEPT !.log = Append(@, ItemEntry(acc.n, "push.item",
                                                              thunderbirdContact.id, contactKey))]
             failed == itemError(seen, "push.error", thunderbirdContact.id, contactKey)
         IN IF hit # <<>>
            THEN IF thunderbirdContactNeedsUpdate(thunderbirdContact, hit[1])
                 THEN IF i = failAt
                      THEN PushItems(list, i + 1, exMapList, failAt, failed)
                      ELSE PushItems(list, i + 1, exMapList, failAt,
                               [seen EXCEPT !.store = ExUpdate(@, hit[1].id, converted),
                                            !.res.updated = @ + 1,
                                            !.res.totalSynced = @ + 1,
                                            !.log = Append(@, LogEntry(acc.n, "ex.update", hit[1].id,
                                                                       contactKey, converted))])
                 ELSE PushItems(list, i + 1, exMapList, failAt, seen)
            ELSE IF i = failAt
                 THEN PushItems(list, i + 1, exMapList, failAt, failed)
                 ELSE PushItems(list, i + 1, exMapList, failAt,
                          [seen EXCEPT !.store = ExCreate(@, converted),
                                       !.res.created = @ + 1,
                                       !.res.totalSynced = @ + 1,
                                       !.log = Append(@, LogEntry(acc.n, "ex.create", Len(acc.store) + 1,
                                                                  contactKey, converted))])

\* sync(account) is entered with no sync in flight; the address book is
\* resolved and syncExchangeToThunderbird lists the local contacts once,
\* before its page loop
ContactSyncStart ==
    /\ run.pc = "idle"
    /\ run.n <= MaxRuns
    /\ run' = [run EXCEPT !.pc = "pullPage", !.tbList = tbStore,
                          !.tb0 = tbStore, !.ex0 = exStore]
    /\ UNCHANGED <<tbStore, exStore, runResults, storeLog>>

\* one iteration of the page loop of syncExchangeToThunderbird
ContactPullPage(failAt) ==
    /\ run.pc = "pullPage"
    /\ LET page == ContactsPage(run.offset, batchSize)
           out == PullItems(page, 1, run.tbList, failAt,
                            [store |-> tbStore, res |-> run.pull, n |-> run.n,
                             log |-> Append(storeLog,
                                            RequestEntry(run.n, "pull.getContacts", run.offset))])
       IN /\ tbStore' = out.store
          /\ storeLog' = out.log
          /\ run' = [run EXCEPT !.pull = out.res,
                                !.offset = @ + batchSize,
                                !.pc = IF hasMore(page) THEN "pullSleep" ELSE "pushList"]
    /\ UNCHANGED <<exStore, runResults>>

\* await this.sleep(100) between two pages
ContactPullSleep ==
    /\ run.pc = "pullSleep"
    /\ run' = [run EXCEPT !.pc = "pullPage", !.sleeps = Append(@, Len(storeLog))]
    /\ UNCHANGED <<tbStore, exStore, runResults, storeLog>>

\* syncThunderbirdToExchange lists the local contacts again
ContactPushList ==
    /\ run.pc = "pushList"
    /\ run' = [run EXCEPT !.pc = "pushFetch", !.tbList = tbStore,
                          !.exAll = <<>>, !.offset = 0]
    /\ UNCHANGED <<tbStore, exStore, runResults, storeLog>>

\* one iteration of the loop of getAllExchangeContacts
ContactPushFetch ==
    /\ run.pc = "pushFetch"
    /\ LET page == ContactsPage(run.offset, batchSize)
       IN run' = [run EXCEPT !.exAll = @ \o page,
                             !.offset = @ + batchSize,
                             !.pc = IF hasMore(page) THEN "pushFetch" ELSE "pushItems"]
    /\ storeLog' = Append(storeLog, RequestEntry(run.n, "push.getContacts", run.offset))
    /\ UNCHANGED <<tbStore, exStore, runResults>>

\* the item loop of syncThunderbirdToExchange
ContactPushItems(failAt) ==
    /\ run.pc = "pushItems"
    /\ LET out == PushItems(run.tbList, 1, run.exAll, failAt,
                            [store |-> exStore, res |-> run.push, log |-> storeLog, n |-> run.n])
       IN /\ exStore' = out.store
          /\ storeLog' = out.log
          /\ run' = [run EXCEPT !.push = out.res, !.pc = "finish"]
    /\ UNCHANGED <<tbStore, runResults>>

\* performBidirectionalSync adds the two passes up and sync returns them
ContactSyncFinish ==
    /\ run.pc = "finish"
    /\ runResults' = Append(runResults, SyncReturn(AddResults(run.pull, run.push)))
    /\ run' = RunIdle(run.n + 1)
    /\ UNCHANGED <<tbStore, exStore, storeLog>>

NextContacts ==
    \/ ContactSyncStart /\ UNCHANGED <<retryVars, keyVars, engineVars, coordVars>>
    \/ ContactPullPage(0) /\ UNCHANGED <<retryVars, keyVars, engineVars, coordVars>>
    \/ ContactPullSleep /\ UNCHANGED <<retryVars, keyVars, engineVars, coordVars>>
    \/ ContactPushList /\ UNCHANGED <<retryVars, keyVars, engineVars, coordVars>>
    \/ ContactPushFetch /\ UNCHANGED <<retryVars, keyVars, engineVars, coordVars>>
    \/ ContactPushItems(0) /\ UNCHANGED <<retryVars, keyVars, engineVars, coordVars>>
    \/ ContactSyncFinish /\ UNCHANGED <<retryVars, keyVars, engineVars, coordVars>>

\* two contact syncs in succession, no store call failing, nothing else
\* touching either store
SpecContacts ==
    InitContacts /\ [][NextContacts]_vars

\* C3: when ContactSync.sync runs to completion twice in succession with no
\* other change to either side and no failing store call, the second run
\* reports created = 0 and updated = 0, whatever the two stores held at
\* the start (shared dedup keys and blank fields included).
C3_ContactSyncIdempotent ==
    Len(runResults) >= 2 => runResults[2].created = 0 /\ runResults[2].updated = 0

\* the remote contacts of the run's start whose email is non-empty and
\* whose dedup key no local contact and no other remote contact had
FreshRemoteContacts ==
    {i \in 1..Len(run.ex0) :
        /\ Truthy(run.ex0[i].email)
        /\ \A j \in 1..Len(run.ex0) :
              j # i => generateContactKeyFromExchange(run.ex0[j])
                          # generateContactKeyFromExchange(run.ex0[i])
        /\ \A j \in 1..Len(run.tb0) :
              generateContactKey(run.tb0[j]) # generateContactKeyFromExchange(run.ex0[i])}

RunLog(op, key) ==
    {k \in 1..Len(storeLog) :
        storeLog[k].run = run.n /\ storeLog[k].op = op /\ storeLog[k].key = key}

\* C4: for a remote contact with a non-empty email whose dedup key matches
\* no local contact and no other remote contact, a run without failing
\* store call creates exactly one local contact, whose PrimaryEmail is the
\* remote email, and its local-to-remote pass creates no remote contact
\* for it.
C4_FreshRemoteCreatesOneLocal ==
    run.pc = "finish" =>
        \A i \in FreshRemoteContacts :
            LET r == run.ex0[i]
                key == generateContactKeyFromExchange(r)
                made == {k \in (Len(run.tb0) + 1)..Len(tbStore) :
                            storeLog[CHOOSE l \in RunLog("tb.create", key) : TRUE].id = tbStore[k].id}
            IN /\ Cardinality(RunLog("tb.create", key)) = 1
               /\ Cardinality(made) = 1
               /\ \A k \in made : tbStore[k].PrimaryEmail = r.email
               /\ Cardinality({k \in 1..Len(tbStore) :
                                  generateContactKey(tbStore[k]) = key}) = 1
               /\ RunLog("ex.create", key) = {}
               /\ Cardinality({k \in 1..Len(exStore) :
                                  generateContactKeyFromExchange(exStore[k]) = key}) = 1

C4_Witness ==
    /\ run.pc = "finish"
    /\ FreshRemoteContacts # {}
    /\ Len(run.ex0) > batchSize
    /\ Len(tbStore) > Len(run.tb0)

\* the ids (offsets for page requests, item ids for loop iterations) of the
\* log entries of run n with the given op, in the order they were made
IdsOf(n, op) ==
    LET sel == SelectSeq(storeLog, LAMBDA e : e.run = n /\ e.op = op)
    IN [i \in 1..Len(sel) |-> sel[i].id]

\* offsets 0, batchSize, ..., N * batchSize for a source of len items,
\* N = len \div batchSize being the number of full pages
ExpectedOffsets(len) == [i \in 1..(len \div batchSize + 1) |-> (i - 1) * batchSize]

IsPrefix(p, q) == Len(p) <= Len(q) /\ \A i \in 1..Len(p) : p[i] = q[i]

\* C13: over a remote source that returns exactly batchSize items for N
\* pages and then a shorter, possibly empty, page, the page loops of
\* syncExchangeToThunderbird and getAllExchangeContacts issue exactly N + 1
\* page requests, at offsets 0, batchSize, ..., N * batchSize, handle
\* every item of the N + 1 pages, and then stop.
C13_PaginationTerminates ==
    /\ run.pc \in {"pullPage", "pullSleep", "pushList", "pushFetch", "pushItems", "finish"} =>
          /\ IsPrefix(IdsOf(run.n, "pull.getContacts"), ExpectedOffsets(Len(run.ex0)))
          /\ IsPrefix(IdsOf(run.n, "push.getContacts"), ExpectedOffsets(Len(run.ex0)))
    /\ run.pc \in {"pushList", "pushFetch", "pushItems", "finish"} =>
          /\ IdsOf(run.n, "pull.getContacts") = ExpectedOffsets(Len(run.ex0))
          /\ IdsOf(run.n, "pull.item") = [i \in 1..Len(run.ex0) |-> run.ex0[i].id]
    /\ run.pc \in {"pushItems", "finish"} =>
          /\ IdsOf(run.n, "push.getContacts") = ExpectedOffsets(Len(run.ex0))
          /\ run.exAll = run.ex0

\* one full page followed by a page of one item
C13_Witness ==
    /\ run.pc = "finish"
    /\ Len(run.ex0) = batchSize + 1
    /\ IdsOf(run.n, "pull.getContacts") = <<0, batchSize>>
    /\ Len(run.exAll) = batchSize + 1

(***************************************************************************)
(* ContactSync.sync with failing store calls: a page request may answer    *)
(* success = false or throw, and the store call of one item of a page may  *)
(* throw.  One run over small stores.                                      *)
(***************************************************************************)
PageFailureKinds == {"unsuccessful", "throws"}

pageFailureResultsMutCountsAll(kind, results) ==
    [results EXCEPT !.errors = @ + 1]

\* what the page loop of syncExchangeToThunderbird does to its counts
\* before it breaks: nothing when the answer has success = false, and
\* results.errors++ in the catch block when the request throws
pageFailureResults(kind, results) ==
    IF kind = "throws" THEN [results EXCEPT !.errors = @ + 1] ELSE results

FailureEntry(n, op, offset, kind) ==
    [run |-> n, op |-> op, id |-> offset, key |-> <<>>, item |-> kind]

\* a page request of syncExchangeToThunderbird fails: break
ContactPullPageFails(kind) ==
    /\ run.pc = "pullPage"
    /\ storeLog' = Append(Append(storeLog,
                                 RequestEntry(run.n, "pull.getContacts", run.offset)),
                          FailureEntry(run.n, "pull.pageFailed", run.offset, kind))
    /\ run' = [run EXCEPT !.pull = pageFailureResults(kind, @), !.pc = "pushList"]
    /\ UNCHANGED <<tbStore, exStore, runResults>>

\* a page request of getAllExchangeContacts fails: break, and the
\* contacts collected so far are returned
ContactPushFetchFails(kind) ==
    /\ run.pc = "pushFetch"
    /\ storeLog' = Append(Append(storeLog,
                                 RequestEntry(run.n, "push.getContacts", run.offset)),
                          FailureEntry(run.n, "push.pageFailed", run.offset, kind))
    /\ run' = [run EXCEPT !.pc = "pushItems"]
    /\ UNCHANGED <<tbStore, exStore, runResults>>

\* a local contact whose DisplayName is whitespace only and whose Company
\* is set
BlankNameContact ==
    [DisplayName |-> <<" ">>, FirstName |-> <<>>, LastName |-> <<>>,
     PrimaryEmail |-> <<"a", "@", "x">>, WorkPhone |-> <<>>, Company |-> <<"B">>]

InitContactsFaults ==
    /\ \E q \in DistinctSeqs({c \in TbContactUniverse : c.DisplayName # <<" ">>}
                                 \cup {BlankNameContact},
                              MaxLocal) : tbStore = WithIds(q)
    /\ \E q \in DistinctSeqs({c \in ExContactUniverse : c.displayName = <<"A">>}
                                 \cup {c \in ExContactUniverse : c.phone # <<>>},
                              MaxRemote) : exStore = WithIds(q)
    /\ run = RunIdle(MaxRuns)
    /\ runResults = <<>>
    /\ storeLog = <<>>
    /\ rx = RetryIdle
    /\ cx = CoordIdle
    /\ kx = KeysIdle
    /\ syncState = <<>>
    /\ lastSyncTimestamp = <<>>
    /\ calls = <<>>
    /\ clock = 0

NextContactsFaults ==
    \/ ContactSyncStart /\ UNCHANGED <<retryVars, keyVars, engineVars, coordVars>>
    \/ (\E failAt \in 0..batchSize : ContactPullPage(failAt))
          /\ UNCHANGED <<retryVars, keyVars, engineVars, coordVars>>
    \/ (\E kind \in PageFailureKinds : ContactPullPageFails(kind))
          /\ UNCHANGED <<retryVars, keyVars, engineVars, coordVars>>
    \/ ContactPullSleep /\ UNCHANGED <<retryVars, keyVars, engineVars, coordVars>>
    \/ ContactPushList /\ UNCHANGED <<retryVars, keyVars, engineVars, coordVars>>
    \/ ContactPushFetch /\ UNCHANGED <<retryVars, keyVars, engineVars, coordVars>>
    \/ (\E kind \in PageFailureKinds : ContactPushFetchFails(kind))
          /\ UNCHANGED <<retryVars, keyVars, engineVars, coordVars>>
    \/ (\E failAt \in 0..Len(run.tbList) : ContactPushItems(failAt))
          /\ UNCHANGED <<retryVars, keyVars, engineVars, coordVars>>
    \/ ContactSyncFinish /\ UNCHANGED <<retryVars, keyVars, engineVars, coordVars>>

\* one contact sync in which store calls may fail
SpecContactsFaults == InitContactsFaults /\ [][NextContactsFaults]_vars

\* the log entries of run n with the given op
EntriesOf(n, op) == SelectSeq(storeLog, LAMBDA e : e.run = n /\ e.op = op)

\* C14: when a page request answers success = false, the page loop stops
\* without raising an error and keeps what the earlier pages delivered:
\* no request follows the failed one, no error is counted for it, the
\* remote-to-local pass keeps the creates, updates and counts of the
\* earlier pages and the run goes on to the next pass, and
\* getAllExchangeContacts returns the items of the earlier pages.
C14_StopOnUnsuccessfulPage ==
    /\ \A k \in 1..Len(EntriesOf(run.n, "pull.pageFailed")) :
          LET f == EntriesOf(run.n, "pull.pageFailed")[k]
              requests == IdsOf(run.n, "pull.getContacts")
          IN f.item = "unsuccessful" =>
                /\ run.pc \in {"pushList", "pushFetch", "pushItems", "finish"}
                /\ requests[Len(requests)] = f.id
                /\ IsPrefix(requests, ExpectedOffsets(Len(run.ex0)))
                /\ IdsOf(run.n, "pull.item") = [i \in 1..f.id |-> run.ex0[i].id]
                /\ run.pull.errors = Len(EntriesOf(run.n, "pull.error"))
                /\ run.pull.created = Len(EntriesOf(run.n, "tb.create"))
                /\ run.pull.updated = Len(EntriesOf(run.n, "tb.update"))
                /\ run.pull.totalSynced = run.pull.created + run.pull.updated
                /\ Len(tbStore) = Len(run.tb0) + run.pull.created
                /\ \A c \in 1..Len(EntriesOf(run.n, "tb.create")) :
                      LET e == EntriesOf(run.n, "tb.create")[c]
                      IN \E t \in 1..Len(tbStore) :
                            tbStore[t].id = e.id /\ tbStore[t].PrimaryEmail = e.item.PrimaryEmail
    /\ \A k \in 1..Len(EntriesOf(run.n, "push.pageFailed")) :
          LET f == EntriesOf(run.n, "push.pageFailed")[k]
              requests == IdsOf(run.n, "push.getContacts")
          IN f.item = "unsuccessful" =>
                /\ run.pc \in {"pushItems", "finish"}
                /\ requests[Len(requests)] = f.id
                /\ IsPrefix(requests, ExpectedOffsets(Len(run.ex0)))
                /\ run.exAll = SubSeq(run.ex0, 1, f.id)

\* the second page request of the remote-to-local pass answers
\* success = false after the first page created a contact
C14_Witness ==
    /\ run.pc = "finish"
    /\ Len(EntriesOf(run.n, "pull.pageFailed")) = 1
    /\ EntriesOf(run.n, "pull.pageFailed")[1].item = "unsuccessful"
    /\ EntriesOf(run.n, "pull.pageFailed")[1].id = batchSize
    /\ run.pull.created >= 1
    /\ run.pull.errors = 0

\* the log entry that follows entry k, or an entry of no op at the end
EntryAfter(k) == IF k < Len(storeLog) THEN storeLog[k + 1] ELSE ItemEntry(0, "none", 0, <<>>)

\* C15: when the store call of one item throws, the pass counts exactly
\* one error for that item and counts it neither as created nor as
\* updated, and every remaining item of the page and of the later pages
\* is still processed.
C15_ItemErrorIsolated ==
    /\ run.pc \in {"pullPage", "pullSleep", "pushList", "pushFetch", "pushItems", "finish"} =>
          /\ run.pull.errors = Len(EntriesOf(run.n, "pull.error"))
                                  + Len(SelectSeq(EntriesOf(run.n, "pull.pageFailed"),
                                                  LAMBDA e : e.item = "throws"))
          /\ run.pull.created = Len(EntriesOf(run.n, "tb.create"))
          /\ run.pull.updated = Len(EntriesOf(run.n, "tb.update"))
          /\ run.pull.totalSynced = run.pull.created + run.pull.updated
          /\ run.push.errors = Len(EntriesOf(run.n, "push.error"))
          /\ run.push.created = Len(EntriesOf(run.n, "ex.create"))
          /\ run.push.updated = Len(EntriesOf(run.n, "ex.update"))
          /\ run.push.totalSynced = run.push.created + run.push.updated
          /\ Len(tbStore) = Len(run.tb0) + run.pull.created
          /\ Len(exStore) = Len(run.ex0) + run.push.created
    /\ \A k \in 1..Len(storeLog) :
          storeLog[k].op \in {"pull.error", "push.error"} =>
              /\ k > 1
              /\ storeLog[k - 1].op = (IF storeLog[k].op = "pull.error"
                                       THEN "pull.item" ELSE "push.item")
              /\ storeLog[k - 1].id = storeLog[k].id
              /\ EntryAfter(k).op \notin {"tb.create", "tb.update", "ex.create", "ex.update",
                                          "pull.error", "push.error"}
    /\ (run.pc \in {"pushList", "pushFetch", "pushItems", "finish"}
        /\ EntriesOf(run.n, "pull.pageFailed") = <<>>) =>
          IdsOf(run.n, "pull.item") = [i \in 1..Len(run.ex0) |-> run.ex0[i].id]
    /\ run.pc = "finish" =>
          IdsOf(run.n, "push.item") = [i \in 1..Len(run.tbList) |-> run.tbList[i].id]

\* the create of the first item of the first page throws, and the second
\* item of that page and an item of the next page are created
C15_Witness ==
    /\ run.pc = "finish"
    /\ Len(run.ex0) > batchSize
    /\ EntriesOf(run.n, "pull.pageFailed") = <<>>
    /\ Len(EntriesOf(run.n, "pull.error")) >= 1
    /\ EntriesOf(run.n, "pull.error")[1].id = run.ex0[1].id
    /\ run.pull.errors = Len(EntriesOf(run.n, "pull.error"))
    /\ run.pull.created + run.pull.updated >= 2

\* the errors the passes of run n counted: one per item whose store call
\* threw and one per page request of the remote-to-local pass that threw
ErrorsCounted(n) ==
    Len(EntriesOf(n, "pull.error")) + Len(EntriesOf(n, "push.error"))
        + Len(SelectSeq(EntriesOf(n, "pull.pageFailed"), LAMBDA e : e.item = "throws"))

\* C17: a non-zero errors count is not a failure: a sync out of which no
\* exception escapes returns success = true together with errors = n,
\* n being the number of per-item and page-request errors its passes
\* counted, whatever n is.
C17_ErrorsAreNotFailure ==
    (run.pc = "idle" /\ Len(runResults) >= 1) =>
        LET r == runResults[Len(runResults)]
        IN /\ r.success = TRUE
           /\ r.errors = ErrorsCounted(run.n - 1)
           /\ r.totalSynced = r.created + r.updated

\* a sync that counted an item error and a thrown page request and
\* returned success = true with errors >= 2
C17_Witness ==
    /\ run.pc = "idle"
    /\ Len(runResults) >= 1
    /\ runResults[Len(runResults)].success = TRUE
    /\ runResults[Len(runResults)].errors >= 2
    /\ Len(EntriesOf(run.n - 1, "pull.error")) >= 1
    /\ \E k \in 1..Len(storeLog) :
          storeLog[k].op = "pull.pageFailed" /\ storeLog[k].item = "throws"

\* the updateContact calls of the local-to-remote pass of the run that has
\* just ended its passes, each with the local contact it was made for and
\* the remote contact the key matched
PushUpdates ==
    {u \in [entry : {storeLog[k] : k \in 1..Len(storeLog)},
            tb : {run.tbList[k] : k \in 1..Len(run.tbList)},
            ex : {run.exAll[k] : k \in 1..Len(run.exAll)}] :
        /\ u.entry.run = run.n
        /\ u.entry.op = "ex.update"
        /\ u.entry.id = u.ex.id
        /\ generateContactKey(u.tb) = u.entry.key
        /\ ExMapGet(run.exAll, u.entry.key) = <<u.ex>>
        /\ convertThunderbirdContact(u.tb) = u.entry.item}

\* C18, first half: a tracked field that is blank on the local contact
\* does not by itself trigger updateContact: every update was triggered
\* by a field that differs and is not blank on the local contact.
C18_BlankAloneTriggersNoUpdate ==
    run.pc = "finish" =>
        \A u \in PushUpdates :
            \E i \in 1..Len(fieldsToCompare) :
                /\ u.tb[fieldsToCompare[i].tb] # u.ex[fieldsToCompare[i].ex]
                /\ trim(u.tb[fieldsToCompare[i].tb]) # <<>>

\* C18: in the local-to-remote pass a tracked field that is empty or
\* whitespace-only on the local contact and non-empty on the key-matched
\* remote contact is never overwritten: the payload of updateContact
\* carries no value for it and the remote contact keeps its value.
C18_BlankLocalNeverOverwrites ==
    run.pc = "finish" =>
        \A u \in PushUpdates :
            \A i \in 1..Len(fieldsToCompare) :
                (trim(u.tb[fieldsToCompare[i].tb]) = <<>> /\ u.ex[fieldsToCompare[i].ex] # <<>>) =>
                    /\ u.entry.item[fieldsToCompare[i].ex] = <<>>
                    /\ \A k \in 1..Len(exStore) :
                          exStore[k].id = u.ex.id =>
                              exStore[k][fieldsToCompare[i].ex] = u.ex[fieldsToCompare[i].ex]

(***************************************************************************)
(* CalendarSync.sync over the remote calendar.  exStore holds the remote   *)
(* items of the sync window; tbStore is the local calendar, which the      *)
(* engine reaches only through getThunderbirdCalendarItems,                *)
(* createThunderbirdCalendarItem and updateThunderbirdCalendarItem.        *)
(***************************************************************************)
ExCalendarUniverse ==
    { [subject |-> <<"s">>, body |-> <<>>, start |-> "2024-01-01T00:00:00Z",
       end |-> "2024-01-02T00:00:00Z", location |-> <<>>, freeBusyStatus |-> "Busy"],
      [subject |-> <<"s">>, body |-> <<>>, start |-> "2024-01-01T01:00:00+01:00",
       end |-> "2024-01-02T00:00:00Z", location |-> <<"B">>, freeBusyStatus |-> "OOF"],
      [subject |-> <<>>, body |-> <<>>, start |-> NoDate,
       end |-> NoDate, location |-> <<>>, freeBusyStatus |-> "Busy"],
      [subject |-> <<"t">>, body |-> <<"b">>, start |-> "2024-01-02T00:00:00Z",
       end |-> "2024-01-02T00:00:00Z", location |-> <<>>, freeBusyStatus |-> "Free"] }

InitCalendar ==
    /\ tbStore = <<>>
    /\ \E q \in DistinctSeqs(ExCalendarUniverse, MaxRemote) : exStore = WithIds(q)
    /\ run = RunIdle(1)
    /\ runResults = <<>>
    /\ storeLog = <<>>
    /\ rx = RetryIdle
    /\ cx = CoordIdle
    /\ kx = KeysIdle
    /\ syncState = <<>>
    /\ lastSyncTimestamp = <<>>
    /\ calls = <<>>
    /\ clock = 0

\* CalendarSync.getThunderbirdCalendarItems: returns [] whatever the
\* local calendar holds
getThunderbirdCalendarItems(store) == <<>>

\* CalendarSync.createThunderbirdCalendarItem: reports success and stores
\* nothing
createThunderbirdCalendarItem(store, item) == store

\* CalendarSync.updateThunderbirdCalendarItem: reports success and stores
\* nothing
updateThunderbirdCalendarItem(store, itemId, updates) == store

\* CalendarSync.needsUpdate
calendarNeedsUpdate(thunderbirdItem, exchangeItem) ==
    \/ thunderbirdItem.subject # exchangeItem.subject
    \/ thunderbirdItem.body # exchangeItem.body
    \/ thunderbirdItem.location # exchangeItem.location
    \/ (IF thunderbirdItem.startDate # <<>> THEN thunderbirdItem.startDate[1] ELSE 0)
          # (IF exchangeItem.start # NoDate THEN ParseDate(exchangeItem.start) ELSE 0)
    \/ (IF thunderbirdItem.endDate # <<>> THEN thunderbirdItem.endDate[1] ELSE 0)
          # (IF exchangeItem.end # NoDate THEN ParseDate(exchangeItem.end) ELSE 0)

\* thunderbirdItemMap.get(key)
CalendarMapGet(list, key) ==
    LET hits == {i \in 1..Len(list) : generateCalendarItemKey(list[i]) = key}
    IN IF hits = {} THEN <<>> ELSE <<list[CHOOSE i \in hits : \A j \in hits : j <= i]>>

RECURSIVE CalendarPullItems(_, _, _, _, _)
\* the body of "for (const exchangeItem of exchangeItems.items)"
CalendarPullItems(items, i, tbMapList, now, acc) ==
    IF i > Len(items) THEN acc
    ELSE LET exchangeItem == items[i]
             itemKey == generateCalendarItemKeyFromExchange(exchangeItem)
             hit == CalendarMapGet(tbMapList, itemKey)
             converted == convertExchangeCalendarItem(exchangeItem, now)
         IN IF hit # <<>>
            THEN IF calendarNeedsUpdate(hit[1], exchangeItem)
                 THEN CalendarPullItems(items, i + 1, tbMapList, now,
                          [acc EXCEPT !.store = updateThunderbirdCalendarItem(@, hit[1].id, converted),
                                      !.res.updated = @ + 1,
                                      !.res.totalSynced = @ + 1,
                                      !.log = Append(@, LogEntry(acc.n, "tb.update", hit[1].id,
                                                                 itemKey, converted))])
                 ELSE CalendarPullItems(items, i + 1, tbMapList, now, acc)
            ELSE CalendarPullItems(items, i + 1, tbMapList, now,
                     [acc EXCEPT !.store = createThunderbirdCalendarItem(@, converted),
                                 !.res.created = @ + 1,
                                 !.res.totalSynced = @ + 1,
                                 !.log = Append(@, LogEntry(acc.n, "tb.create", exchangeItem.id,
                                                            itemKey, converted))])

\* sync(account) is entered: the calendar object is made and
\* syncExchangeToThunderbird asks for the local items
CalendarSyncStart ==
    /\ run.pc = "idle"
    /\ run.n <= MaxRuns
    /\ run' = [run EXCEPT !.pc = "pull", !.tbList = getThunderbirdCalendarItems(tbStore),
                          !.tb0 = tbStore, !.ex0 = exStore]
    /\ UNCHANGED <<tbStore, exStore, runResults, storeLog>>

\* getCalendarItems answers and the item loop of syncExchangeToThunderbird
\* runs
CalendarPull ==
    /\ run.pc = "pull"
    /\ \E now \in NowValues :
         LET out == CalendarPullItems(exStore, 1, run.tbList, now,
                        [store |-> tbStore, res |-> run.pull, log |-> storeLog, n |-> run.n])
         IN /\ tbStore' = out.store
            /\ storeLog' = out.log
            /\ run' = [run EXCEPT !.pull = out.res, !.pc = "pushList"]
    /\ UNCHANGED <<exStore, runResults>>

\* syncThunderbirdToExchange asks for the local items and the remote ones
CalendarPushList ==
    /\ run.pc = "pushList"
    /\ run' = [run EXCEPT !.pc = "pushItems", !.tbList = getThunderbirdCalendarItems(tbStore),
                          !.exAll = exStore]
    /\ UNCHANGED <<tbStore, exStore, runResults, storeLog>>

\* the item loop of syncThunderbirdToExchange: one iteration per local
\* item listed, and none is
CalendarPushItems ==
    /\ run.pc = "pushItems"
    /\ run.tbList = <<>>
    /\ run' = [run EXCEPT !.push = ZeroResults, !.pc = "finish"]
    /\ UNCHANGED <<tbStore, exStore, runResults, storeLog>>

\* performBidirectionalSync adds the two passes up and sync returns them
CalendarSyncFinish ==
    /\ run.pc = "finish"
    /\ runResults' = Append(runResults, SyncReturn(AddResults(run.pull, run.push)))
    /\ run' = RunIdle(run.n + 1)
    /\ UNCHANGED <<tbStore, exStore, storeLog>>

NextCalendar ==
    \/ CalendarSyncStart /\ UNCHANGED <<retryVars, keyVars, engineVars, coordVars>>
    \/ CalendarPull /\ UNCHANGED <<retryVars, keyVars, engineVars, coordVars>>
    \/ CalendarPushList /\ UNCHANGED <<retryVars, keyVars, engineVars, coordVars>>
    \/ CalendarPushItems /\ UNCHANGED <<retryVars, keyVars, engineVars, coordVars>>
    \/ CalendarSyncFinish /\ UNCHANGED <<retryVars, keyVars, engineVars, coordVars>>

\* calendar syncs in succession over an unchanging remote calendar
SpecCalendar ==
    InitCalendar /\ [][NextCalendar]_vars

\* C5: when CalendarSync.sync runs to completion twice in succession over
\* the same remote calendar items, at least one of them in the sync
\* window, the second run reports created = 0 and updated = 0.
C5_CalendarSyncIdempotent ==
    (Len(runResults) >= 2 /\ Len(exStore) >= 1) =>
        runResults[2].created = 0 /\ runResults[2].updated = 0

(***************************************************************************)
(* EmailSync.sync over one folder.  exStore holds the folder's remote      *)
(* messages, tbStore the headers browser.messages.list gives for the       *)
(* local folder.                                                           *)
(***************************************************************************)
ExMessageUniverse ==
    { [subject |-> <<"s">>, dateTimeReceived |-> "2024-01-01T00:00:00Z"],
      [subject |-> <<"s">>, dateTimeReceived |-> "2024-01-02T00:00:00Z"],
      [subject |-> <<>>, dateTimeReceived |-> NoDate],
      [subject |-> <<"t">>, dateTimeReceived |-> "2024-01-01T01:00:00+01:00"] }

\* headers of local messages that were in the folder before the first run
TbMessageUniverse ==
    { [subject |-> <<"s">>, date |-> <<10>>, headerMessageId |-> <<>>, MessageID |-> <<>>],
      [subject |-> <<"t">>, date |-> <<10>>, headerMessageId |-> <<"h">>, MessageID |-> <<"h">>],
      [subject |-> <<"u">>, date |-> <<24>>, headerMessageId |-> <<>>, MessageID |-> <<>>] }

InitMail ==
    /\ \E q \in DistinctSeqs(TbMessageUniverse, MaxLocal) : tbStore = q
    /\ \E q \in DistinctSeqs(ExMessageUniverse, MaxRemote) : exStore = WithIds(q)
    /\ run = RunIdle(1)
    /\ runResults = <<>>
    /\ storeLog = <<>>
    /\ rx = RetryIdle
    /\ cx = CoordIdle
    /\ kx = KeysIdle
    /\ syncState = <<>>
    /\ lastSyncTimestamp = <<>>
    /\ calls = <<>>
    /\ clock = 0

\* EmailSync.addMessageToThunderbird: builds the raw text, reports success
\* and stores nothing
addMessageToThunderbird(store, message) == store

\* existingMessageMap.has(messageKey)
ExistingMessageMapHas(list, messageKey) ==
    \E i \in 1..Len(list) : generateMessageKey(list[i]) = messageKey

\* getMessages(account, folderId, {maxItems, offset}): one page of the folder
MessagesPage(offset, maxItems) ==
    SubSeq(exStore, offset + 1, Min(offset + maxItems, Len(exStore)))

RECURSIVE MailItems(_, _, _, _, _, _)
\* the body of "for (const exchangeMessage of exchangeMessages.messages)":
\* a message whose key is in the map is skipped, any other is fetched in
\* full, converted, handed to addMessageToThunderbird and counted; the
\* getMessage call of item failAt throws (0: none does)
MailItems(page, i, existing, now, failAt, acc) ==
    IF i > Len(page) THEN acc
    ELSE LET exchangeMessage == page[i]
             messageKey == generateMessageKeyFromExchange(exchangeMessage)
             thunderbirdMessage == convertExchangeMessage(exchangeMessage, now)
             seen == [acc EXCEPT !.log = Append(@, ItemEntry(acc.n, "mail.item",
                                                              exchangeMessage.id, messageKey))]
         IN IF ExistingMessageMapHas(existing, messageKey)
            THEN MailItems(page, i + 1, existing, now, failAt, seen)
            ELSE IF i = failAt
            THEN MailItems(page, i + 1, existing, now, failAt,
                     itemError(seen, "mail.error", exchangeMessage.id, messageKey))
            ELSE MailItems(page, i + 1, existing, now, failAt,
                     [seen EXCEPT !.store = addMessageToThunderbird(@, thunderbirdMessage),
                                 !.res.totalSynced = @ + 1,
                                 !.log = Append(Append(@,
                                            LogEntry(acc.n, "ex.getMessage", exchangeMessage.id,
                                                     messageKey, exchangeMessage)),
                                            LogEntry(acc.n, "tb.add", exchangeMessage.id,
                                                     messageKey, thunderbirdMessage))])

\* sync(account) is entered; syncFolder lists the local messages of the
\* folder once, before its page loop
MailSyncStart ==
    /\ run.pc = "idle"
    /\ run.n <= MaxRuns
    /\ run' = [run EXCEPT !.pc = "page", !.tbList = tbStore,
                          !.tb0 = tbStore, !.ex0 = exStore]
    /\ UNCHANGED <<tbStore, exStore, runResults, storeLog>>

\* one iteration of the page loop of syncFolder
MailPage(failAt) ==
    /\ run.pc = "page"
    /\ \E now \in NowValues :
         LET page == MessagesPage(run.offset, batchSize)
             out == MailItems(page, 1, run.tbList, now, failAt,
                        [store |-> tbStore, res |-> run.pull, n |-> run.n,
                         log |-> Append(storeLog, RequestEntry(run.n, "getMessages", run.offset))])
         IN /\ tbStore' = out.store
            /\ storeLog' = out.log
            /\ run' = [run EXCEPT !.pull = out.res,
                                  !.offset = @ + batchSize,
                                  !.pc = IF hasMore(page) THEN "sleep" ELSE "finish"]
    /\ UNCHANGED <<exStore, runResults>>

\* await this.sleep(100) between two pages
MailSleep ==
    /\ run.pc = "sleep"
    /\ run' = [run EXCEPT !.pc = "page", !.sleeps = Append(@, Len(storeLog))]
    /\ UNCHANGED <<tbStore, exStore, runResults, storeLog>>

\* syncAllFolders returns the folder's counts and sync returns them
MailSyncFinish ==
    /\ run.pc = "finish"
    /\ runResults' = Append(runResults, SyncReturn(run.pull))
    /\ run' = RunIdle(run.n + 1)
    /\ UNCHANGED <<tbStore, exStore, storeLog>>

NextMail ==
    \/ MailSyncStart /\ UNCHANGED <<retryVars, keyVars, engineVars, coordVars>>
    \/ MailPage(0) /\ UNCHANGED <<retryVars, keyVars, engineVars, coordVars>>
    \/ MailSleep /\ UNCHANGED <<retryVars, keyVars, engineVars, coordVars>>
    \/ MailSyncFinish /\ UNCHANGED <<retryVars, keyVars, engineVars, coordVars>>

\* mail syncs in succession over an unchanging remote folder
SpecMail ==
    InitMail /\ [][NextMail]_vars

\* the full-message fetches of run n
FetchesOfRun(n) ==
    {k \in 1..Len(storeLog) : storeLog[k].run = n /\ storeLog[k].op = "ex.getMessage"}

\* C6: when EmailSync.sync runs to completion twice in succession with no
\* intervening change, every remote message the first run handled is
\* recognised as existing by the second run: the second run fetches no
\* full message and reports totalSynced = 0.
C6_MailSyncIdempotent ==
    Len(runResults) >= 2 =>
        /\ FetchesOfRun(2) = {}
        /\ runResults[2].totalSynced = 0

\* C13 for the page loop of EmailSync.syncFolder: N + 1 page requests at
\* offsets 0, batchSize, ..., N * batchSize, every message handled.
C13_MailPagination ==
    /\ run.pc \in {"page", "sleep", "finish"} =>
          IsPrefix(IdsOf(run.n, "getMessages"), ExpectedOffsets(Len(run.ex0)))
    /\ run.pc = "finish" =>
          /\ IdsOf(run.n, "getMessages") = ExpectedOffsets(Len(run.ex0))
          /\ IdsOf(run.n, "mail.item") = [i \in 1..Len(run.ex0) |-> run.ex0[i].id]

(***************************************************************************)
(* EmailSync.sync with failing store calls: a page request may answer      *)
(* success = false or throw, and the getMessage call of one message of a   *)
(* page may throw.  One run over a small folder.                           *)
(***************************************************************************)
\* a page request of syncFolder fails: break
MailPageFails(kind) ==
    /\ run.pc = "page"
    /\ storeLog' = Append(Append(storeLog, RequestEntry(run.n, "getMessages", run.offset)),
                          FailureEntry(run.n, "mail.pageFailed", run.offset, kind))
    /\ run' = [run EXCEPT !.pull = pageFailureResults(kind, @), !.pc = "finish"]
    /\ UNCHANGED <<tbStore, exStore, runResults>>

InitMailFaults ==
    /\ \E q \in DistinctSeqs(TbMessageUniverse, MaxLocal) : tbStore = q
    /\ \E q \in DistinctSeqs(ExMessageUniverse, MaxRemote) : exStore = WithIds(q)
    /\ run = RunIdle(MaxRuns)
    /\ runResults = <<>>
    /\ storeLog = <<>>
    /\ rx = RetryIdle
    /\ cx = CoordIdle
    /\ kx = KeysIdle
    /\ syncState = <<>>
    /\ lastSyncTimestamp = <<>>
    /\ calls = <<>>
    /\ clock = 0

NextMailFaults ==
    \/ MailSyncStart /\ UNCHANGED <<retryVars, keyVars, engineVars, coordVars>>
    \/ (\E failAt \in 0..batchSize : MailPage(failAt))
          /\ UNCHANGED <<retryVars, keyVars, engineVars, coordVars>>
    \/ (\E kind \in PageFailureKinds : MailPageFails(kind))
          /\ UNCHANGED <<retryVars, keyVars, engineVars, coordVars>>
    \/ MailSleep /\ UNCHANGED <<retryVars, keyVars, engineVars, coordVars>>
    \/ MailSyncFinish /\ UNCHANGED <<retryVars, keyVars, engineVars, coordVars>>

\* one mail sync in which store calls may fail
SpecMailFaults == InitMailFaults /\ [][NextMailFaults]_vars

\* C14 for the page loop of EmailSync.syncFolder: after a page request
\* that answers success = false no request follows, no error is counted
\* for it and the counts of the earlier pages are kept.
C14_MailStopOnUnsuccessfulPage ==
    \A k \in 1..Len(EntriesOf(run.n, "mail.pageFailed")) :
        LET f == EntriesOf(run.n, "mail.pageFailed")[k]
            requests == IdsOf(run.n, "getMessages")
        IN f.item = "unsuccessful" =>
              /\ run.pc = "finish"
              /\ requests[Len(requests)] = f.id
              /\ IsPrefix(requests, ExpectedOffsets(Len(run.ex0)))
              /\ IdsOf(run.n, "mail.item") = [i \in 1..f.id |-> run.ex0[i].id]
              /\ run.pull.errors = Len(EntriesOf(run.n, "mail.error"))
              /\ run.pull.totalSynced = Len(EntriesOf(run.n, "tb.add"))

\* C15 for the item loop of EmailSync.syncFolder: a getMessage call that
\* throws counts one error, the message is not counted as synced, and the
\* messages after it are still handled.
C15_MailItemErrorIsolated ==
    /\ run.pc \in {"page", "sleep", "finish"} =>
          /\ run.pull.errors = Len(EntriesOf(run.n, "mail.error"))
                                  + Len(SelectSeq(EntriesOf(run.n, "mail.pageFailed"),
                                                  LAMBDA e : e.item = "throws"))
          /\ run.pull.totalSynced = Len(EntriesOf(run.n, "tb.add"))
    /\ \A k \in 1..Len(storeLog) :
          storeLog[k].op = "mail.error" =>
              /\ k > 1
              /\ storeLog[k - 1].op = "mail.item"
              /\ storeLog[k - 1].id = storeLog[k].id
              /\ EntryAfter(k).op \notin {"ex.getMessage", "tb.add", "mail.error"}
    /\ (run.pc = "finish" /\ EntriesOf(run.n, "mail.pageFailed") = <<>>) =>
          IdsOf(run.n, "mail.item") = [i \in 1..Len(run.ex0) |-> run.ex0[i].id]

(***************************************************************************)
(* The diff functions on their own: ContactSync.needsUpdate and            *)
(* CalendarSync.needsUpdate applied to one local/remote pair.  A field the *)
(* item does not carry and an empty field are both <<>> (NoDate for a      *)
(* remote date), as `x || ''` makes them.                                  *)
(***************************************************************************)
TbContactPairInputs ==
    [id : {1},
     DisplayName : {<<>>, <<"A">>, <<" ">>},
     FirstName : {<<>>, <<"F">>},
     LastName : {<<>>, <<"S">>},
     PrimaryEmail : {<<>>, <<"a", "@", "x">>},
     WorkPhone : {<<>>, <<"1">>},
     Company : {<<>>, <<"B">>}]

ExContactPairInputs ==
    [id : {2},
     displayName : {<<>>, <<"A">>},
     firstName : {<<>>, <<"F">>},
     lastName : {<<>>, <<"S">>},
     email : {<<>>, <<"a", "@", "x">>},
     phone : {<<>>, <<"1">>},
     company : {<<>>, <<"B">>}]

TbCalendarPairInputs ==
    [subject : {<<>>, <<"s">>},
     body : {<<>>, <<"b">>},
     location : {<<>>, <<"B">>},
     startDate : {<<>>, <<10>>, <<24>>},
     endDate : {<<>>, <<24>>},
     status : {"busy", "available"}]

ExCalendarPairInputs ==
    [id : {<<"e", "1">>},
     subject : {<<>>, <<"s">>},
     body : {<<>>, <<"b">>},
     location : {<<>>, <<"B">>},
     start : DateStrings \cup {NoDate},
     end : {NoDate, "2024-01-02T00:00:00Z"},
     freeBusyStatus : {"Busy", "Free"}]

\* local calendar items as the local->remote pass would list them
TbCalendarPushInputs ==
    [subject : {<<>>, <<"s">>},
     title : {<<>>, <<"s">>},
     body : {<<>>, <<"b">>},
     location : {<<>>, <<"B">>},
     startDate : {<<10>>},
     endDate : {<<24>>},
     status : {"busy"}]

InitDiff ==
    /\ \/ \E t \in TbContactPairInputs, x \in ExContactPairInputs :
             kx = [stage |-> "pair", entity |-> "contact", tb |-> t, ex |-> x]
       \/ \E t \in TbCalendarPairInputs, x \in ExCalendarPairInputs :
             kx = [stage |-> "pair", entity |-> "calendar", tb |-> t, ex |-> x]
       \/ \E t \in TbCalendarPushInputs, x \in ExCalendarPairInputs :
             kx = [stage |-> "pushPair", entity |-> "calendar", tb |-> t, ex |-> x]
    /\ rx = RetryIdle
    /\ cx = CoordIdle
    /\ syncState = <<>>
    /\ lastSyncTimestamp = <<>>
    /\ calls = <<>>
    /\ clock = 0
    /\ tbStore = <<>>
    /\ exStore = <<>>
    /\ run = RunUnused
    /\ runResults = <<>>
    /\ storeLog = <<>>

\* the pair after the call, with what the call returned: both functions
\* only read their arguments
Diffed(entity, tb, ex, result) ==
    [stage |-> "diffed", entity |-> entity, tb |-> tb, ex |-> ex,
     tbAfter |-> tb, exAfter |-> ex, result |-> result]

\* ContactSync.needsUpdate(thunderbirdContact, exchangeContact)
ApplyContactNeedsUpdate ==
    /\ kx.stage = "pair" /\ kx.entity = "contact"
    /\ kx' = Diffed("contact", kx.tb, kx.ex, needsUpdate(kx.tb, kx.ex))

\* CalendarSync.needsUpdate(thunderbirdItem, exchangeItem)
ApplyCalendarNeedsUpdate ==
    /\ kx.stage = "pair" /\ kx.entity = "calendar"
    /\ kx' = Diffed("calendar", kx.tb, kx.ex, calendarNeedsUpdate(kx.tb, kx.ex))

\* CalendarSync.thunderbirdItemNeedsUpdate
thunderbirdItemNeedsUpdate(thunderbirdItem, exchangeItem) ==
    calendarNeedsUpdate(thunderbirdItem, exchangeItem)

\* the test syncThunderbirdToExchange makes on a key-matched pair, with the
\* updates it would send when the test answers true
ApplyThunderbirdItemNeedsUpdate ==
    /\ kx.stage = "pushPair"
    /\ \E now \in NowValues :
          kx' = [stage |-> "pushDiffed", entity |-> "calendar", tb |-> kx.tb, ex |-> kx.ex,
                 result |-> thunderbirdItemNeedsUpdate(kx.tb, kx.ex),
                 updates |-> convertThunderbirdCalendarItem(kx.tb, now)]

NextDiff ==
    \/ ApplyContactNeedsUpdate /\ UNCHANGED <<retryVars, engineVars, dataVars, coordVars>>
    \/ ApplyCalendarNeedsUpdate /\ UNCHANGED <<retryVars, engineVars, dataVars, coordVars>>
    \/ ApplyThunderbirdItemNeedsUpdate
          /\ UNCHANGED <<retryVars, engineVars, dataVars, coordVars>>

SpecDiff == InitDiff /\ [][NextDiff]_vars

\* a local date and a remote date string denote the same instant, or are
\* both missing
SameInstant(localDate, remoteDate) ==
    \/ localDate = <<>> /\ remoteDate = NoDate
    \/ localDate # <<>> /\ remoteDate # NoDate /\ localDate[1] = ParseDate(remoteDate)

\* the pair agrees on every tracked field
SameTrackedFields ==
    IF kx.entity = "contact"
    THEN /\ kx.tb.DisplayName = kx.ex.displayName
         /\ kx.tb.FirstName = kx.ex.firstName
         /\ kx.tb.LastName = kx.ex.lastName
         /\ kx.tb.PrimaryEmail = kx.ex.email
         /\ kx.tb.WorkPhone = kx.ex.phone
         /\ kx.tb.Company = kx.ex.company
    ELSE /\ kx.tb.subject = kx.ex.subject
         /\ kx.tb.body = kx.ex.body
         /\ kx.tb.location = kx.ex.location
         /\ SameInstant(kx.tb.startDate, kx.ex.start)
         /\ SameInstant(kx.tb.endDate, kx.ex.end)

\* C19: needsUpdate of contacts and of calendar items returns true exactly
\* when the local and the remote item differ in at least one tracked field
\* (for calendar items also in the start or end instant), false for a pair
\* identical across the tracked fields, and changes neither argument.
C19_DiffCorrect ==
    kx.stage = "diffed" =>
        /\ kx.result = ~SameTrackedFields
        /\ kx.tbAfter = kx.tb
        /\ kx.exAfter = kx.ex

\* a contact pair that differs in Company alone, and a calendar pair whose
\* dates are written differently and denote the same instants: true for
\* the first, false for the second
C19_Witness ==
    /\ kx.stage = "diffed"
    /\ \/ /\ kx.entity = "contact"
          /\ kx.result = TRUE
          /\ kx.tb.Company # kx.ex.company
          /\ kx.tb.DisplayName = kx.ex.displayName
          /\ kx.tb.FirstName = kx.ex.firstName
          /\ kx.tb.LastName = kx.ex.lastName
          /\ kx.tb.PrimaryEmail = kx.ex.email
          /\ kx.tb.WorkPhone = kx.ex.phone
       \/ /\ kx.entity = "calendar"
          /\ kx.result = FALSE
          /\ kx.ex.start = "2024-01-01T01:00:00+01:00"
          /\ kx.tb.status # convertFreeBusyStatus(kx.ex.freeBusyStatus)

(***************************************************************************)
(* The free/busy status through the two calendar converters: a remote item *)
(* converted to its local form and back, and a local item converted to its *)
(* remote form.  "" is a status the item does not carry.                   *)
(***************************************************************************)
\* the keys of the statusMap of convertFreeBusyStatus and of
\* convertStatusToFreeBusy
FreeBusyStatuses == {"Free", "Tentative", "Busy", "OOF", "WorkingElsewhere"}
LocalStatuses == {"available", "tentative", "busy", "out-of-office", "working-elsewhere"}

ExCalendarStatusInputs ==
    [id : {<<"e", "1">>},
     subject : {<<>>, <<"s">>},
     body : {<<>>},
     start : DateStrings \cup {NoDate},
     end : {NoDate, "2024-01-02T00:00:00Z"},
     location : {<<>>},
     freeBusyStatus : FreeBusyStatuses \cup {"NoData", "", "oof", "busy"}]

TbCalendarStatusInputs ==
    [subject : {<<>>, <<"s">>},
     title : {<<>>, <<"t">>},
     body : {<<>>},
     startDate : {<<>>, <<10>>},
     endDate : {<<24>>},
     location : {<<>>},
     status : LocalStatuses \cup {"", "cancelled", "OOF", "Busy", "Available"}]

InitStatus ==
    /\ \/ \E x \in ExCalendarStatusInputs :
             kx = [stage |-> "remote", origin |-> "remote", ex |-> x]
       \/ \E t \in TbCalendarStatusInputs :
             kx = [stage |-> "local", origin |-> "local", tb |-> t]
    /\ rx = RetryIdle
    /\ cx = CoordIdle
    /\ syncState = <<>>
    /\ lastSyncTimestamp = <<>>
    /\ calls = <<>>
    /\ clock = 0
    /\ tbStore = <<>>
    /\ exStore = <<>>
    /\ run = RunUnused
    /\ runResults = <<>>
    /\ storeLog = <<>>

\* convertExchangeCalendarItem(exchangeItem)
StatusToLocal ==
    /\ kx.stage = "remote"
    /\ \E now \in NowValues :
          kx' = [stage |-> "local", origin |-> "remote", ex |-> kx.ex,
                 tb |-> convertExchangeCalendarItem(kx.ex, now)]

\* convertThunderbirdCalendarItem(thunderbirdItem)
StatusToRemote ==
    /\ kx.stage = "local"
    /\ \E now \in NowValues :
          kx' = [stage |-> "back", origin |-> kx.origin, tb |-> kx.tb,
                 ex |-> IF kx.origin = "remote" THEN kx.ex ELSE kx.tb,
                 back |-> convertThunderbirdCalendarItem(kx.tb, now)]

NextStatus ==
    \/ StatusToLocal /\ UNCHANGED <<retryVars, engineVars, dataVars, coordVars>>
    \/ StatusToRemote /\ UNCHANGED <<retryVars, engineVars, dataVars, coordVars>>

SpecStatus == InitStatus /\ [][NextStatus]_vars

MaxOps == 3
OpIds == 1..MaxOps

\* number of setInterval calls made in one behaviour
MaxTimers == 3

\* syncSettings.syncInterval, in model time units
SyncIntervals == {5, 1}

\* the engines syncSettings may enable
EnabledChoices == {Engines, {"email", "contacts"}}

NewOp ==
    [pc |-> "new", kind |-> "none", account |-> "none", trigger |-> "none",
     promise |-> [e \in Engines |-> "none"], outcome |-> [e \in Engines |-> "none"],
     settings |-> 0, result |-> "none", error |-> "none"]

\* an account object as setupAccount made it: lastSync null (0) for every
\* entity type
AccountObject(enabled, syncInterval) ==
    [lastSync |-> [e \in Engines |-> 0], enabled |-> enabled, syncInterval |-> syncInterval]

\* Array.from(this.accounts.values()), as storage.local.set serialises it
AccountList(c) == {[id |-> a, object |-> c.objects[a]] : a \in c.accounts}

\* saveAccounts()
saveAccounts(c) == [c EXCEPT !.storage = AccountList(c)]

\* the result of a call: the value returned, or the error thrown
Returned(op, result, error) == [op EXCEPT !.pc = "returned", !.result = result, !.error = error]

\* the engines whose promise of call o is still pending
Pending(op) == {e \in Engines : op.promise[e] = "running"}

\* --- timers --------------------------------------------------------------
\* stopSyncInterval(accountId); also the first lines of removeAccount
stopSyncInterval(c, a) ==
    IF c.syncIntervals[a] # 0
    THEN [c EXCEPT !.timers = {t \in @ : t.id # c.syncIntervals[a]},
                   !.syncIntervals[a] = 0]
    ELSE c

startSyncIntervalMutNoClear(c, a) ==
    IF a \notin c.accounts THEN c
    ELSE [c EXCEPT !.timers = @ \cup {[id |-> c.nextTimer, account |-> a,
                                        interval |-> c.objects[a].syncInterval]},
                   !.syncIntervals[a] = c.nextTimer,
                   !.nextTimer = c.nextTimer + 1]

\* startSyncInterval(accountId)
startSyncInterval(c, a) ==
    IF a \notin c.accounts THEN c
    ELSE LET cleared == IF c.syncIntervals[a] # 0
                        THEN [c EXCEPT !.timers = {t \in @ : t.id # c.syncIntervals[a]}]
                        ELSE c
             id == c.nextTimer
         IN [cleared EXCEPT !.timers = @ \cup {[id |-> id, account |-> a,
                                                 interval |-> c.objects[a].syncInterval]},
                            !.syncIntervals[a] = id,
                            !.nextTimer = id + 1]

RECURSIVE startPeriodicSync(_, _)
\* startPeriodicSync(): startSyncInterval for every account of the Map
startPeriodicSync(c, todo) ==
    IF todo = {} THEN c
    ELSE LET a == CHOOSE x \in todo : TRUE
         IN startPeriodicSync(startSyncInterval(c, a), todo \ {a})

\* the extension after init(): the accounts of the storage loaded into the
\* Map, a timer started for each
Loaded(loaded, objects) ==
    LET c0 == [accounts |-> loaded, objects |-> objects, storage |-> {},
               syncIntervals |-> [a \in Accounts |-> 0], timers |-> {},
               nextTimer |-> 1, ops |-> [o \in OpIds |-> NewOp],
               removed |-> {}]
    IN startPeriodicSync(saveAccounts(c0), loaded)

\* one account set up, the other id unknown to the extension
InitCoordinator ==
    /\ \E enabled \in EnabledChoices :
          cx = Loaded({"acct1"}, [a \in Accounts |-> AccountObject(enabled, 5)])
    /\ syncState = [e \in Engines |-> [a \in Accounts |-> NoState]]
    /\ lastSyncTimestamp = [e \in Engines |-> [a \in Accounts |-> 0]]
    /\ calls = <<>>
    /\ clock = 0
    /\ rx = RetryIdle
    /\ kx = KeysIdle
    /\ tbStore = <<>>
    /\ exStore = <<>>
    /\ run = RunUnused
    /\ runResults = <<>>
    /\ storeLog = <<>>

\* the next call made on the extension takes the lowest unused id
MayCall(o) ==
    /\ cx.ops[o].pc = "new"
    /\ \A p \in OpIds : p < o => cx.ops[p].pc # "new"

\* --- syncAccount ---------------------------------------------------------
\* syncAccount(accountId) is called, by the syncNow message or by the
\* account's timer: throws when the Map has no such account, otherwise
\* awaits refreshTokenIfNeeded (which catches its own errors and whose
\* result syncAccount does not read)
EnteredSyncAccount(c, o, a, trigger) ==
    [c EXCEPT !.ops[o] =
        IF a \in c.accounts
        THEN [NewOp EXCEPT !.pc = "refresh", !.kind = "syncAccount",
                           !.account = a, !.trigger = trigger]
        ELSE Returned([NewOp EXCEPT !.kind = "syncAccount", !.account = a,
                                    !.trigger = trigger],
                      "thrown", "Account not found")]

EnterSyncAccount(o, a, trigger) ==
    /\ cx' = EnteredSyncAccount(cx, o, a, trigger)
    /\ UNCHANGED engineVars

SyncNow(o, a) ==
    /\ MayCall(o)
    /\ EnterSyncAccount(o, a, "syncNow")

\* the callback of setInterval runs: syncAccount(accountId).catch(...)
TimerFires(o, t) ==
    /\ MayCall(o)
    /\ t \in cx.timers
    /\ EnterSyncAccount(o, t.account, "timer")


\* the continuation of "await Promise.all(syncPromises)" once every promise
\* is fulfilled: accounts.set(accountId, account), saveAccounts(), return
\* {success: true}
AfterAll(c, o) ==
    IF c.ops[o].pc = "engines" /\ \A e \in Engines : c.ops[o].promise[e] \in {"none", "fulfilled"}
    THEN LET set == [c EXCEPT !.accounts = @ \cup {c.ops[o].account}]
         IN [saveAccounts(set) EXCEPT !.ops[o] = Returned(@, "success", "none")]
    ELSE c

\* the callback of .then(() => { account.lastSync.x = new Date()... }): it
\* runs for whatever value the engine's sync resolved with
ThenCallback(c, o, stamped, now, outcome) ==
    [c EXCEPT !.objects[c.ops[o].account].lastSync =
                  [e \in Engines |-> IF e \in stamped THEN now ELSE @[e]],
              !.ops[o].promise = [e \in Engines |-> IF e \in stamped THEN "fulfilled" ELSE @[e]],
              !.ops[o].outcome = [e \in Engines |-> IF e \in stamped THEN outcome ELSE @[e]]]

\* refreshTokenIfNeeded returned, with either result: sync(account) is called on every enabled
\* engine in one synchronous block.  An engine whose syncState entry is in
\* progress resolves with {success: false, error: 'Sync already in
\* progress'}; the others mark the entry and run.
StartEngines(o) ==
    /\ cx.ops[o].pc = "refresh"
    /\ LET a == cx.ops[o].account
           enabled == cx.objects[a].enabled
           refused == {e \in enabled : AlreadyInProgress(e, a)}
           started == enabled \ refused
           now == clock + 1
           begun == [cx EXCEPT !.ops[o].pc = "engines",
                               !.ops[o].promise = [e \in Engines |->
                                    IF e \in started THEN "running" ELSE "none"]]
       IN /\ syncState' = [e \in Engines |-> [b \in Accounts |->
                              IF e \in started /\ b = a
                              THEN MarkInProgress(syncState[e][b])
                              ELSE syncState[e][b]]]
          /\ cx' = AfterAll(ThenCallback(begun, o, refused, now, "refused"), o)
          /\ UNCHANGED <<lastSyncTimestamp, calls, clock>>

\* an engine's sync returns {success: true, ...}
EngineSucceeds(o, e) ==
    /\ cx.ops[o].promise[e] = "running"
    /\ LET a == cx.ops[o].account
           now == clock + 1
       IN /\ syncState' = [syncState EXCEPT ![e][a] = MarkSuccess(@, 1)]
          /\ lastSyncTimestamp' = [lastSyncTimestamp EXCEPT ![e][a] = now]
          /\ cx' = AfterAll(ThenCallback(cx, o, {e}, now, "success"), o)
          /\ UNCHANGED <<calls, clock>>

\* an engine's sync throws: Promise.all rejects at the first rejection and
\* syncAccount returns {success: false, error} from its catch block
EngineThrows(o, e) ==
    /\ cx.ops[o].promise[e] = "running"
    /\ LET a == cx.ops[o].account
           rejected == [cx EXCEPT !.ops[o].promise[e] = "rejected",
                                  !.ops[o].outcome[e] = "error"]
       IN /\ syncState' = [syncState EXCEPT ![e][a] = MarkError(@, "sync failed")]
          /\ cx' = IF cx.ops[o].pc = "engines"
                   THEN [rejected EXCEPT !.ops[o] = Returned(@, "failure", "sync failed")]
                   ELSE rejected
          /\ UNCHANGED <<lastSyncTimestamp, calls, clock>>

\* --- removeAccount -------------------------------------------------------
\* removeAccount(accountId) is called: the timer is cleared, then
\* browser.accounts.delete is awaited
RemoveAccount(o, a) ==
    /\ MayCall(o)
    /\ cx' = IF a \in cx.accounts
             THEN [stopSyncInterval(cx, a) EXCEPT
                      !.ops[o] = [NewOp EXCEPT !.pc = "deleting", !.kind = "removeAccount",
                                               !.account = a]]
             ELSE [cx EXCEPT !.ops[o] = Returned([NewOp EXCEPT !.kind = "removeAccount",
                                                               !.account = a],
                                                 "failure", "Account not found")]
    /\ UNCHANGED engineVars

\* browser.accounts.delete returned: accounts.delete(accountId),
\* saveAccounts(), return {success: true}
RemoveAccountDeleted(o) ==
    /\ cx.ops[o].pc = "deleting"
    /\ LET a == cx.ops[o].account
           deleted == [cx EXCEPT !.accounts = @ \ {a}, !.removed = @ \cup {a}]
       IN cx' = [saveAccounts(deleted) EXCEPT !.ops[o] = Returned(@, "success", "none")]
    /\ UNCHANGED engineVars

\* browser.accounts.delete throws: return {success: false, error}
RemoveAccountFails(o) ==
    /\ cx.ops[o].pc = "deleting"
    /\ cx' = [cx EXCEPT !.ops[o] = Returned(@, "failure", "delete failed")]
    /\ UNCHANGED engineVars

\* --- updateSyncSettings --------------------------------------------------
\* the settings objects the model passes: a new syncInterval, or a new
\* choice of engines (no syncInterval key)
SettingsChoices ==
    [syncInterval : SyncIntervals, enabled : {{}}]
        \cup [syncInterval : {0}, enabled : EnabledChoices \cup {{}}]

\* account.syncSettings = {...account.syncSettings, ...settings}
mergeSettings(object, settings) ==
    IF settings.syncInterval # 0
    THEN [object EXCEPT !.syncInterval = settings.syncInterval]
    ELSE [object EXCEPT !.enabled = settings.enabled]

\* updateSyncSettings(accountId, settings) is called: the settings are
\* merged, saveAccounts is awaited
UpdateSyncSettings(o, a, settings) ==
    /\ MayCall(o)
    /\ cx' = IF a \in cx.accounts
             THEN LET merged == [cx EXCEPT !.objects[a] = mergeSettings(@, settings)]
                  IN [saveAccounts(merged) EXCEPT
                         !.ops[o] = [NewOp EXCEPT !.pc = "saving", !.kind = "updateSyncSettings",
                                                  !.account = a, !.settings = settings]]
             ELSE [cx EXCEPT !.ops[o] = Returned([NewOp EXCEPT !.kind = "updateSyncSettings",
                                                               !.account = a,
                                                               !.settings = settings],
                                                 "failure", "Account not found")]
    /\ UNCHANGED engineVars

\* saveAccounts returned: the timer is restarted when the settings carry
\* a syncInterval; return {success: true}
UpdateSyncSettingsSaved(o) ==
    /\ cx.ops[o].pc = "saving"
    /\ LET a == cx.ops[o].account
           restarted == IF cx.ops[o].settings.syncInterval # 0
                        THEN startSyncInterval(stopSyncInterval(cx, a), a)
                        ELSE cx
       IN cx' = [restarted EXCEPT !.ops[o] = Returned(@, "success", "none")]
    /\ UNCHANGED engineVars

\* startSyncInterval(accountId) and stopSyncInterval(accountId) called on
\* their own
CallStartSyncInterval(a) ==
    /\ cx.nextTimer <= MaxTimers
    /\ a \in cx.accounts
    /\ cx' = startSyncInterval(cx, a)
    /\ UNCHANGED engineVars

CallStopSyncInterval(a) ==
    /\ cx.syncIntervals[a] # 0
    /\ cx' = stopSyncInterval(cx, a)
    /\ UNCHANGED engineVars

\* syncAccount and removeAccount calls interleaving on accounts whose
\* engines are enabled
NextCoordinator ==
    \/ (\E o \in OpIds, a \in Accounts : SyncNow(o, a))
          /\ UNCHANGED <<retryVars, keyVars, dataVars>>
    \/ (\E o \in OpIds : StartEngines(o)) /\ UNCHANGED <<retryVars, keyVars, dataVars>>
    \/ (\E o \in OpIds, e \in Engines : EngineSucceeds(o, e))
          /\ UNCHANGED <<retryVars, keyVars, dataVars>>
    \/ (\E o \in OpIds, e \in Engines : EngineThrows(o, e))
          /\ UNCHANGED <<retryVars, keyVars, dataVars>>
    \/ (\E o \in OpIds, a \in Accounts : RemoveAccount(o, a))
          /\ UNCHANGED <<retryVars, keyVars, dataVars>>
    \/ (\E o \in OpIds : RemoveAccountDeleted(o)) /\ UNCHANGED <<retryVars, keyVars, dataVars>>
    \/ (\E o \in OpIds : RemoveAccountFails(o)) /\ UNCHANGED <<retryVars, keyVars, dataVars>>

SpecCoordinator == InitCoordinator /\ [][NextCoordinator]_vars

\* C21: syncAccount sets account.lastSync of an entity type only when that
\* engine's sync ran and succeeded: not when the engine answered "Sync
\* already in progress", and not when it threw.
C21_LastSyncOnlyOnSuccess ==
    \A a \in Accounts, e \in Engines :
        cx.objects[a].lastSync[e] # 0 =>
            \E o \in OpIds : cx.ops[o].account = a /\ cx.ops[o].outcome[e] = "success"

\* C21, the part about a throwing engine: lastSync is set only by a call
\* whose engine sync resolved, never by one whose engine sync threw
C21_NotSetWhenEngineThrew ==
    \A a \in Accounts, e \in Engines :
        cx.objects[a].lastSync[e] # 0 =>
            \E o \in OpIds : /\ cx.ops[o].account = a
                             /\ cx.ops[o].outcome[e] \in {"success", "refused"}

\* C22: syncAccount returns its result only after every engine sync it
\* started has settled, also when one of them fails while the others are
\* still running.
C22_ReturnsAfterAllSettled ==
    \A o \in OpIds :
        (cx.ops[o].kind = "syncAccount" /\ cx.ops[o].pc = "returned") =>
            Pending(cx.ops[o]) = {}

\* C22, the part about the start: the syncs of all enabled engines, and of
\* no other engine, are started in one step, none waiting for another
C22_StartsEnabledTogether ==
    [][\A o \in OpIds :
          (cx.ops[o].pc = "refresh" /\ cx'.ops[o].pc # "refresh") =>
              \A e \in Engines :
                  IF e \in cx.objects[cx.ops[o].account].enabled
                  THEN cx'.ops[o].promise[e] \in {"running", "fulfilled"}
                  ELSE cx'.ops[o].promise[e] = "none"]_vars

\* no call is suspended at an await and no engine sync is running
Quiescent ==
    \A o \in OpIds : cx.ops[o].pc \in {"new", "returned"} /\ Pending(cx.ops[o]) = {}

\* C23: when one engine's sync throws during syncAccount, every other
\* engine sync of the call that succeeds has its lastSync timestamp in the
\* persisted account record once the call's syncs have all settled.
C23_SiblingSuccessPersisted ==
    Quiescent =>
        \A o \in OpIds, e \in Engines :
            (/\ cx.ops[o].kind = "syncAccount"
             /\ \E f \in Engines : cx.ops[o].outcome[f] = "error"
             /\ cx.ops[o].outcome[e] = "success"
             /\ cx.ops[o].account \in cx.accounts) =>
                \E r \in cx.storage :
                    r.id = cx.ops[o].account /\ r.object.lastSync[e] # 0

\* C23, the part about the siblings: a throwing engine sync changes the
\* state of no other engine sync of the call, and a sibling that succeeds
\* has its lastSync set on the account object in memory
C23_SiblingsKeepRunning ==
    [][\A o \in OpIds, e \in Engines, f \in Engines :
          (e # f /\ cx.ops[o].promise[e] = "running" /\ cx'.ops[o].promise[e] = "rejected") =>
              cx'.ops[o].promise[f] = cx.ops[o].promise[f]]_vars

C23_SiblingSuccessInMemory ==
    \A o \in OpIds, e \in Engines :
        cx.ops[o].outcome[e] = "success" => cx.objects[cx.ops[o].account].lastSync[e] # 0

\* C25: once removeAccount(accountId) has returned {success: true}, the
\* account is in neither the account Map nor the persisted account list,
\* in every later state, whatever calls were in flight.
C25_RemovalIsFinal ==
    \A a \in cx.removed :
        /\ a \notin cx.accounts
        /\ \A r \in cx.storage : r.id # a

(***************************************************************************)
(* The interval timers.  The accounts have every entity type switched off  *)
(* (syncSettings.email, contacts and calendar false), so a syncAccount     *)
(* call started by a timer has no engine sync to wait for.                 *)
(***************************************************************************)
InitTimers ==
    /\ \E loaded \in SUBSET Accounts :
          /\ loaded # {}
          /\ cx = Loaded(loaded, [a \in Accounts |-> AccountObject({}, 5)])
    /\ syncState = [e \in Engines |-> [a \in Accounts |-> NoState]]
    /\ lastSyncTimestamp = [e \in Engines |-> [a \in Accounts |-> 0]]
    /\ calls = <<>>
    /\ clock = 0
    /\ rx = RetryIdle
    /\ kx = KeysIdle
    /\ tbStore = <<>>
    /\ exStore = <<>>
    /\ run = RunUnused
    /\ runResults = <<>>
    /\ storeLog = <<>>

NextTimers ==
    \/ (\E o \in OpIds, t \in cx.timers : TimerFires(o, t))
          /\ UNCHANGED <<retryVars, keyVars, dataVars>>
    \/ (\E o \in OpIds : StartEngines(o)) /\ UNCHANGED <<retryVars, keyVars, dataVars>>
    \/ (\E o \in OpIds, a \in Accounts : RemoveAccount(o, a))
          /\ UNCHANGED <<retryVars, keyVars, dataVars>>
    \/ (\E o \in OpIds : RemoveAccountDeleted(o)) /\ UNCHANGED <<retryVars, keyVars, dataVars>>
    \/ (\E o \in OpIds : RemoveAccountFails(o)) /\ UNCHANGED <<retryVars, keyVars, dataVars>>
    \/ (\E o \in OpIds, a \in Accounts, settings \in SettingsChoices :
            settings.enabled = {} /\ UpdateSyncSettings(o, a, settings))
          /\ UNCHANGED <<retryVars, keyVars, dataVars>>
    \/ (\E o \in OpIds : UpdateSyncSettingsSaved(o))
          /\ UNCHANGED <<retryVars, keyVars, dataVars>>
    \/ (\E a \in Accounts : CallStartSyncInterval(a))
          /\ UNCHANGED <<retryVars, keyVars, dataVars>>
    \/ (\E a \in Accounts : CallStopSyncInterval(a))
          /\ UNCHANGED <<retryVars, keyVars, dataVars>>

SpecTimers == InitTimers /\ [][NextTimers]_vars

\* the active timers of account a
TimersOf(c, a) == {t \in c.timers : t.account = a}

\* at most one active timer per account, and every active timer is the one
\* syncIntervals holds for its account
OneTimerPerAccount ==
    \A a \in Accounts :
        /\ Cardinality(TimersOf(cx, a)) <= 1
        /\ \A t \in TimersOf(cx, a) : cx.syncIntervals[a] = t.id

\* updateSyncSettings with a syncInterval returns for an account of the
\* Map: one timer is active for it, at the account's syncInterval, which is
\* the interval of the call when no other updateSyncSettings call was made
\* for the account
RescheduledOnUpdate ==
    \A o \in OpIds :
        (/\ cx.ops[o].pc = "saving"
         /\ cx'.ops[o].pc = "returned"
         /\ cx.ops[o].settings.syncInterval # 0
         /\ cx.ops[o].account \in cx.accounts) =>
            LET a == cx.ops[o].account
            IN /\ Cardinality(TimersOf(cx', a)) = 1
               /\ \A t \in TimersOf(cx', a) :
                     /\ t.interval = cx'.objects[a].syncInterval
                     /\ t \notin cx.timers
                     /\ (\A p \in OpIds \ {o} :
                            ~(cx.ops[p].kind = "updateSyncSettings" /\ cx.ops[p].account = a))
                          => t.interval = cx.ops[o].settings.syncInterval

\* a step of updateSyncSettings leaves the timers of the other accounts
\* as they were
OtherTimersUntouched ==
    \A o \in OpIds :
        (cx'.ops[o].kind = "updateSyncSettings" /\ cx'.ops[o] # cx.ops[o]) =>
            \A b \in Accounts \ {cx'.ops[o].account} :
                /\ TimersOf(cx', b) = TimersOf(cx, b)
                /\ cx'.syncIntervals[b] = cx.syncIntervals[b]

IncrementalEngines == {"email", "contacts"}

\* the account of the call: displayName and thunderbirdAccountId
IncrementalAccount == "acct1"

\* `Exchange - ${account.displayName}`
addressBookName(account) == <<"Exchange - ", account>>

\* an address book the extension did not create
PersonalAddressBook == <<"Personal">>

\* a lastSyncTimestamp written by an earlier sync
PriorSync == 20

IncIdle == [pc |-> "idle", engine |-> "", result |-> <<>>, error |-> "",
            tb0 |-> <<>>, ex0 |-> <<>>, last0 |-> 0]

\* the stores when incrementalSync is called: the Exchange address book
\* and the Thunderbird account may have been deleted by the user since the
\* last sync; the contacts live in the Exchange address book
InitIncremental ==
    /\ \E books \in {{PersonalAddressBook},
                     {PersonalAddressBook, addressBookName(IncrementalAccount)}},
          accts \in SUBSET {IncrementalAccount},
          q \in DistinctSeqs(TbContactUniverse, MaxLocal) :
             /\ (addressBookName(IncrementalAccount) \notin books => q = <<>>)
             /\ tbStore = [addressBooks |-> books, accounts |-> accts,
                           contacts |-> WithIds(q)]
    /\ \E q \in DistinctSeqs(ExContactUniverse, MaxRemote) : exStore = WithIds(q)
    /\ \E last \in {0, PriorSync} :
          lastSyncTimestamp = [e \in IncrementalEngines |->
                                  [a \in {IncrementalAccount} |-> last]]
    /\ run = IncIdle
    /\ clock = 30
    /\ runResults = <<>>
    /\ storeLog = <<>>
    /\ rx = RetryIdle
    /\ cx = CoordIdle
    /\ kx = KeysIdle
    /\ syncState = <<>>
    /\ calls = <<>>

\* this.lastSyncTimestamp.set(account.id, new Date().toISOString());
\* return { success: true, totalSynced: ... }
IncrementalReturns(totalSynced) ==
    /\ run' = [run EXCEPT !.pc = "returned",
                          !.result = [success |-> TRUE, totalSynced |-> totalSynced]]
    /\ lastSyncTimestamp' =
          [lastSyncTimestamp EXCEPT ![run.engine][IncrementalAccount] = clock + 1]
    /\ clock' = clock + 1

\* catch (error) { console.error(...); throw error; }
IncrementalThrows(message) ==
    /\ run' = [run EXCEPT !.pc = "thrown", !.error = message]
    /\ UNCHANGED <<lastSyncTimestamp, clock>>

\* incrementalSync(account) is called with a prior lastSyncTimestamp: the
\* first await is the container lookup
IncrementalCall(e) ==
    /\ run.pc = "idle"
    /\ lastSyncTimestamp[e][IncrementalAccount] # 0
    /\ run' = [run EXCEPT !.pc = "container", !.engine = e,
                          !.tb0 = tbStore, !.ex0 = exStore,
                          !.last0 = lastSyncTimestamp[e][IncrementalAccount]]
    /\ UNCHANGED <<lastSyncTimestamp, clock, tbStore, exStore, storeLog>>

\* if (!lastSync) return await this.sync(account): the full sync
IncrementalDelegates(e) ==
    /\ run.pc = "idle"
    /\ lastSyncTimestamp[e][IncrementalAccount] = 0
    /\ run' = [run EXCEPT !.pc = "fullSync", !.engine = e,
                          !.tb0 = tbStore, !.ex0 = exStore]
    /\ UNCHANGED <<lastSyncTimestamp, clock, tbStore, exStore, storeLog>>

\* getOrCreateAddressBook: browser.addressBooks.list() resolves; with the
\* book found, syncNewContacts returns zeros and incrementalSync returns
AddressBookListed ==
    /\ run.pc = "container"
    /\ run.engine = "contacts"
    /\ IF addressBookName(IncrementalAccount) \in tbStore.addressBooks
       THEN IncrementalReturns(0)
       ELSE /\ run' = [run EXCEPT !.pc = "creating"]
            /\ UNCHANGED <<lastSyncTimestamp, clock>>
    /\ UNCHANGED <<tbStore, exStore, storeLog>>

\* browser.addressBooks.list() throws
AddressBookListFails ==
    /\ run.pc = "container"
    /\ run.engine = "contacts"
    /\ IncrementalThrows("addressBooks.list failed")
    /\ UNCHANGED <<tbStore, exStore, storeLog>>

\* browser.addressBooks.create({name, type: 'jsaddressbook'}) resolves
AddressBookCreated ==
    /\ run.pc = "creating"
    /\ tbStore' = [tbStore EXCEPT
                      !.addressBooks = @ \cup {addressBookName(IncrementalAccount)}]
    /\ storeLog' = Append(storeLog,
                          LogEntry(1, "addressBooks.create", 0, <<>>,
                                   addressBookName(IncrementalAccount)))
    /\ IncrementalReturns(0)
    /\ UNCHANGED exStore

\* browser.addressBooks.create throws
AddressBookCreateFails ==
    /\ run.pc = "creating"
    /\ IncrementalThrows("addressBooks.create failed")
    /\ UNCHANGED <<tbStore, exStore, storeLog>>

\* EmailSync.getThunderbirdAccount finds the account; getNewMessages
\* returns [] and the loop over the new messages has no turn
MailAccountFound ==
    /\ run.pc = "container"
    /\ run.engine = "email"
    /\ IncrementalAccount \in tbStore.accounts
    /\ IncrementalReturns(0)
    /\ UNCHANGED <<tbStore, exStore, storeLog>>

\* getThunderbirdAccount returns undefined (no such account) or null
\* (browser.accounts.list() threw)
MailAccountMissing ==
    /\ run.pc = "container"
    /\ run.engine = "email"
    /\ IncrementalThrows("Thunderbird account not found")
    /\ UNCHANGED <<tbStore, exStore, storeLog>>

NextIncremental ==
    /\ UNCHANGED <<retryVars, keyVars, coordVars, syncState, calls, runResults>>
    /\ \/ \E e \in IncrementalEngines : IncrementalCall(e)
       \/ \E e \in IncrementalEngines : IncrementalDelegates(e)
       \/ AddressBookListed
       \/ AddressBookListFails
       \/ AddressBookCreated
       \/ AddressBookCreateFails
       \/ MailAccountFound
       \/ MailAccountMissing

SpecIncremental == InitIncremental /\ [][NextIncremental]_vars

IncrementalReturned == run.pc = "returned"

\* C26: an incrementalSync call of the mail or the contacts engine made
\* with a prior lastSyncTimestamp returns {success: true, totalSynced: 0}
\* and has created, updated or deleted nothing in the local or the remote
\* store: no item and no container.
C26_IncrementalIsNoOp ==
    IncrementalReturned =>
        /\ run.result = [success |-> TRUE, totalSynced |-> 0]
        /\ tbStore = run.tb0
        /\ exStore = run.ex0
        /\ storeLog = <<>>

\* the part of C26 that holds: no call changes an item of either store,
\* and the mail engine's call changes nothing at all
C26_ItemsUntouched ==
    run.pc \notin {"idle"} =>
        /\ tbStore.contacts = run.tb0.contacts
        /\ tbStore.accounts = run.tb0.accounts
        /\ exStore = run.ex0
        /\ (run.engine = "email" => tbStore = run.tb0 /\ storeLog = <<>>)
        /\ (IncrementalReturned => run.result = [success |-> TRUE, totalSynced |-> 0])

(***************************************************************************)
(* The delay between the page requests of a loop.                          *)
(***************************************************************************)
\* the places in storeLog of the current run's page requests of one loop
PageRequests(op) ==
    {k \in 1..Len(storeLog) : storeLog[k].run = run.n /\ storeLog[k].op = op}

\* between any two consecutive page requests of the loop a sleep was
\* awaited
DelayBetweenPages(op) ==
    \A i, j \in PageRequests(op) :
        (i < j /\ \A k \in PageRequests(op) : ~(i < k /\ k < j)) =>
            \E s \in 1..Len(run.sleeps) : i <= run.sleeps[s] /\ run.sleeps[s] < j

\* C27: in every paginated fetch loop against the remote (the page loop of
\* ContactSync.syncExchangeToThunderbird, of getAllExchangeContacts and of
\* EmailSync.syncFolder) a delay step occurs between any two consecutive
\* page requests; no two page requests of one loop are issued back to
\* back.
C27_InterPageDelay ==
    /\ DelayBetweenPages("pull.getContacts")
    /\ DelayBetweenPages("push.getContacts")
    /\ DelayBetweenPages("getMessages")

\* the part of C27 that holds, for the contacts engine: the page loop of
\* syncExchangeToThunderbird sleeps between its pages
C27_PullPagesDelayed == DelayBetweenPages("pull.getContacts")

\* the part of C27 that holds, for the mail engine: the page loop of
\* syncFolder sleeps between its pages
C27_MailPagesDelayed ==
    /\ DelayBetweenPages("getMessages")
    /\ (run.pc = "finish" /\ Len(run.ex0) >= batchSize =>
            Len(run.sleeps) = Len(run.ex0) \div batchSize)

(***************************************************************************)
(* CalendarSync.sync with a failing getCalendarItems request.              *)
(***************************************************************************)
\* getCalendarItems throws, or answers success = false and
\* syncExchangeToThunderbird throws 'Failed to get Exchange calendar
\* items': the catch blocks of syncExchangeToThunderbird,
\* performBidirectionalSync and sync throw the error on
CalendarPullFails(kind) ==
    /\ run.pc = "pull"
    /\ storeLog' = Append(Append(storeLog, RequestEntry(run.n, "getCalendarItems", 0)),
                          FailureEntry(run.n, "calendar.fetchFailed", 0, kind))
    /\ run' = [run EXCEPT !.pc = "thrown"]
    /\ UNCHANGED <<tbStore, exStore, runResults>>

\* the next sync(account) after one that threw
CalendarSyncAgain ==
    /\ run.pc = "thrown"
    /\ run.n < MaxRuns
    /\ run' = RunIdle(run.n + 1)
    /\ UNCHANGED <<tbStore, exStore, runResults, storeLog>>

NextCalendarFaults ==
    /\ UNCHANGED <<retryVars, keyVars, engineVars, coordVars>>
    /\ \/ CalendarSyncStart
       \/ CalendarPull
       \/ \E kind \in PageFailureKinds : CalendarPullFails(kind)
       \/ CalendarSyncAgain
       \/ CalendarPushList
       \/ CalendarPushItems
       \/ CalendarSyncFinish

\* calendar syncs in which the request for the remote items may fail
SpecCalendarFaults == InitCalendar /\ [][NextCalendarFaults]_vars

\* the places in storeLog where a remote fetch of a remote->local pass
\* failed
PullFetchFailures ==
    {k \in 1..Len(storeLog) :
        storeLog[k].op \in {"pull.pageFailed", "calendar.fetchFailed"}}

\* the run is in its local->remote pass or about to return its result
InPushPassOrLater == run.pc \in {"pushList", "pushFetch", "pushItems", "finish"}

\* C28: for the contacts and the calendar engine, a failure to fetch
\* remote items during the remote->local pass (a thrown error or a
\* success = false result) ends only that pass: the local->remote pass of
\* the same sync still runs and the sync returns a result instead of
\* throwing.
C28_PullFailureEndsOnlyThatPass ==
    \A k \in PullFetchFailures :
        \/ storeLog[k].run = run.n /\ InPushPassOrLater
        \/ storeLog[k].run < run.n /\ Len(runResults) >= 1

\* the part of C28 that holds, for the contacts engine: after a failed
\* page request of syncExchangeToThunderbird the run lists the local
\* contacts for the local->remote pass, asks the remote for its contacts
\* and returns a result
C28_ContactsPullFailureEndsOnlyThatPass ==
    \A k \in PullFetchFailures :
        /\ storeLog[k].op = "pull.pageFailed"
        /\ \/ storeLog[k].run = run.n /\ InPushPassOrLater
           \/ storeLog[k].run < run.n /\ Len(runResults) = 1
        /\ (storeLog[k].run < run.n \/ run.pc \in {"pushItems", "finish"}) =>
              \E j \in (k + 1)..Len(storeLog) : storeLog[j].op = "push.getContacts"

(***************************************************************************)
(* The errors count of a pass and its failed page requests.                *)
(***************************************************************************)
\* the failed page requests of the current run's page loop, of the given
\* kinds
FailedPages(op, kinds) ==
    SelectSeq(EntriesOf(run.n, op), LAMBDA f : f.item \in kinds)

\* no page request of the loop follows a failed one
RemainingPagesSkipped(failedOp, requestOp) ==
    \A k \in 1..Len(EntriesOf(run.n, failedOp)) :
        LET requests == IdsOf(run.n, requestOp)
        IN /\ k = 1
           /\ requests[Len(requests)] = EntriesOf(run.n, failedOp)[k].id

\* C29: in ContactSync.syncExchangeToThunderbird and EmailSync.syncFolder,
\* whenever a page request fails, by throwing or by returning
\* success = false, the pass's errors count is incremented by one and the
\* remaining pages of that pass are skipped.
C29_FailedPageCounted ==
    /\ run.pull.errors = Len(EntriesOf(run.n, "pull.error"))
                           + Len(FailedPages("pull.pageFailed", PageFailureKinds))
    /\ RemainingPagesSkipped("pull.pageFailed", "pull.getContacts")

\* the part of C29 that holds, for the contacts engine: a page request
\* that throws is counted once, one that answers success = false is not
\* counted, and either ends the page loop
C29_ThrownPageCounted ==
    /\ run.pull.errors = Len(EntriesOf(run.n, "pull.error"))
                           + Len(FailedPages("pull.pageFailed", {"throws"}))
    /\ RemainingPagesSkipped("pull.pageFailed", "pull.getContacts")

\* the same for the page loop of EmailSync.syncFolder
C29_MailThrownPageCounted ==
    /\ run.pull.errors = Len(EntriesOf(run.n, "mail.error"))
                           + Len(FailedPages("mail.pageFailed", {"throws"}))
    /\ RemainingPagesSkipped("mail.pageFailed", "getMessages")

(***************************************************************************)
(* The engines under fair scheduling: every store call an accepted call    *)
(* awaits returns or throws, so a suspended call takes its next step.      *)
(***************************************************************************)
\* the await call c is suspended at settles
CallProceeds(c) ==
    /\ \/ ContainerResolved(c) \/ ContainerFails(c)
       \/ FoldersSynced(c) \/ FoldersFail(c)
       \/ PullDone(c) \/ PullFails(c)
       \/ PushDone(c) \/ PushFails(c)
       \/ IncWorkDone(c)
    /\ UNCHANGED <<retryVars, keyVars, dataVars, coordVars>>

SpecEngineFair == SpecEngine /\ \A c \in CallIds : WF_vars(CallProceeds(c))

\* call c is an accepted sync that has not finished
Accepted(c) == calls[c].body = "full" /\ calls[c].pc \in RunningPcs

\* an accepted sync leaves Running only as Idle(success), returning, or as
\* Idle(error), throwing, and with inProgress = false
LeavesRunningAsIdle ==
    \A c \in CallIds :
        (Accepted(c) /\ calls'[c].pc \notin RunningPcs) =>
            LET st == syncState'[calls[c].engine][calls[c].account]
            IN /\ ~st.inProgress
               /\ \/ calls'[c].pc = "returned" /\ calls'[c].result = "success"
                  \/ /\ calls'[c].pc = "thrown" /\ calls'[c].result = "error"
                     /\ st.lastError = calls'[c].error

\* inProgress is true only while an accepted sync of the account runs
InProgressOnlyWhileRunning ==
    \A e \in Engines, a \in Accounts :
        AlreadyInProgress(e, a) => SyncsInFlight(e, a) # {}

\* C30: for each engine, every accepted sync call (Idle -> Running)
\* eventually reaches inProgress = false, as Idle(success) or Idle(error),
\* provided every store call eventually returns or throws; the engine is
\* never left with inProgress = true once the call has returned or thrown,
\* so a later sync for that account is accepted.
C30_ReturnToIdle ==
    /\ \A c \in CallIds : Accepted(c) ~> (calls[c].pc \in {"returned", "thrown"})
    /\ [][LeavesRunningAsIdle]_vars
    /\ []InProgressOnlyWhileRunning

\* a sync threw, and a later sync call for the same account on the same
\* engine was accepted and has returned
C30_Witness ==
    \E c1, c2 \in CallIds :
        /\ c1 < c2
        /\ calls[c1].engine = calls[c2].engine /\ calls[c1].account = calls[c2].account
        /\ calls[c1].body = "full" /\ calls[c1].pc = "thrown"
        /\ calls[c2].kind = "sync" /\ calls[c2].pc = "returned"
        /\ calls[c2].result = "success"
        /\ ~AlreadyInProgress(calls[c2].engine, calls[c2].account)

(***************************************************************************)
(* The local->remote test of the calendar engine on blank local fields.    *)
(***************************************************************************)
CalendarTextFields == {"subject", "body", "location"}

\* the pair is key-matched, its dates denote the same instants, and every
\* text field that differs is empty on the local item; one differs
BlankLocalOnly(tb, ex) ==
    /\ generateCalendarItemKey(tb) = generateCalendarItemKeyFromExchange(ex)
    /\ SameInstant(tb.startDate, ex.start)
    /\ SameInstant(tb.endDate, ex.end)
    /\ \A f \in CalendarTextFields : tb[f] = ex[f] \/ tb[f] = <<>>
    /\ \E f \in CalendarTextFields : tb[f] # ex[f]

\* C31: CalendarSync.thunderbirdItemNeedsUpdate returns false for a local
\* item and its key-matched remote item whose only differences are tracked
\* fields (subject, body, location) that are empty or missing on the local
\* item and non-empty on the remote item, so that the local->remote pass
\* sends no updateCalendarItem that blanks a remote field.
C31_BlankLocalNeverOverwritesCalendar ==
    (kx.stage = "pushDiffed" /\ BlankLocalOnly(kx.tb, kx.ex)) => kx.result = FALSE

\* what does hold: the test answers false for a pair that agrees on every
\* text field and on both instants
C31_EqualPairNeedsNoUpdate ==
    (/\ kx.stage = "pushDiffed"
     /\ \A f \in CalendarTextFields : kx.tb[f] = kx.ex[f]
     /\ SameInstant(kx.tb.startDate, kx.ex.start)
     /\ SameInstant(kx.tb.endDate, kx.ex.end)) => kx.result = FALSE

(***************************************************************************)
(* SpecSetup: setupAccount adding accounts to an extension that loaded     *)
(* none or one, with the timer-started syncAccount calls and               *)
(* removeAccount.  A loaded account has every entity type switched off;    *)
(* an account setupAccount makes has all three switched on.                *)
(***************************************************************************)
\* syncSettings.syncInterval of a new account: 300000 ms, in model units
DefaultSyncInterval == 5

\* generateAccountId(): an id no account ever had
FreshAccountId(a) ==
    /\ a \notin cx.accounts
    /\ a \notin cx.removed
    /\ \A o \in OpIds : cx.ops[o].account # a

InitSetup ==
    /\ \E loaded \in SUBSET {"acct1"} :
          cx = Loaded(loaded, [a \in Accounts |->
                                  IF a \in loaded
                                  THEN AccountObject({}, DefaultSyncInterval)
                                  ELSE AccountObject(Engines, DefaultSyncInterval)])
    /\ syncState = [e \in Engines |-> [a \in Accounts |-> NoState]]
    /\ lastSyncTimestamp = [e \in Engines |-> [a \in Accounts |-> 0]]
    /\ calls = <<>>
    /\ clock = 0
    /\ rx = RetryIdle
    /\ kx = KeysIdle
    /\ tbStore = <<>>
    /\ exStore = <<>>
    /\ run = RunUnused
    /\ runResults = <<>>
    /\ storeLog = <<>>

\* setupAccount(accountData) is called; discovery, authentication,
\* testConnection and createThunderbirdAccount succeed: the account object
\* is made, accounts.set(account.id, account), and saveAccounts is awaited
SetupAccount(o, a) ==
    /\ MayCall(o)
    /\ FreshAccountId(a)
    /\ LET made == [cx EXCEPT !.objects[a] = AccountObject(Engines, DefaultSyncInterval),
                              !.accounts = @ \cup {a}]
       IN cx' = [saveAccounts(made) EXCEPT
                    !.ops[o] = [NewOp EXCEPT !.pc = "setupSaving", !.kind = "setupAccount",
                                             !.account = a]]
    /\ UNCHANGED engineVars

\* one of setupAccount's steps before the account is stored throws:
\* return {success: false, error}
SetupAccountFails(o) ==
    /\ MayCall(o)
    /\ cx' = [cx EXCEPT !.ops[o] = Returned([NewOp EXCEPT !.kind = "setupAccount"],
                                            "failure", "setup failed")]
    /\ UNCHANGED engineVars

\* saveAccounts returned: await this.syncAccount(account.id), which is
\* call p
SetupAccountSaved(o, p) ==
    /\ cx.ops[o].pc = "setupSaving"
    /\ MayCall(p)
    /\ cx' = [EnteredSyncAccount(cx, p, cx.ops[o].account, "setup") EXCEPT
                 !.ops[o].pc = "setupSync", !.ops[o].settings = p]
    /\ UNCHANGED engineVars

\* the syncAccount call of setupAccount has resolved or thrown:
\* return {success: true, accountId}, or {success: false, error} from the
\* catch block
SetupAccountReturns(o) ==
    /\ cx.ops[o].pc = "setupSync"
    /\ cx.ops[cx.ops[o].settings].pc = "returned"
    /\ cx' = [cx EXCEPT !.ops[o] =
                 IF cx.ops[cx.ops[o].settings].result = "thrown"
                 THEN Returned(@, "failure", cx.ops[cx.ops[o].settings].error)
                 ELSE Returned(@, "success", "none")]
    /\ UNCHANGED engineVars

NextSetup ==
    /\ UNCHANGED <<retryVars, keyVars, dataVars>>
    /\ \/ \E o \in OpIds, a \in Accounts : SetupAccount(o, a)
       \/ \E o \in OpIds : SetupAccountFails(o)
       \/ \E o \in OpIds, p \in OpIds : SetupAccountSaved(o, p)
       \/ \E o \in OpIds : SetupAccountReturns(o)
       \/ \E o \in OpIds, t \in cx.timers : TimerFires(o, t)
       \/ \E o \in OpIds : StartEngines(o)
       \/ \E o \in OpIds, e \in Engines : EngineSucceeds(o, e)
       \/ \E o \in OpIds, e \in Engines : EngineThrows(o, e)
       \/ \E o \in OpIds, a \in Accounts : RemoveAccount(o, a)
       \/ \E o \in OpIds : RemoveAccountDeleted(o)
       \/ \E o \in OpIds : RemoveAccountFails(o)

SpecSetup == InitSetup /\ [][NextSetup]_vars

\* removeAccount has been called for the account
RemovalBegun(a) ==
    \E o \in OpIds : cx.ops[o].kind = "removeAccount" /\ cx.ops[o].account = a

\* setupAccount is still running for the account
SetupRunning(a) ==
    \E o \in OpIds : /\ cx.ops[o].kind = "setupAccount" /\ cx.ops[o].account = a
                     /\ cx.ops[o].pc # "returned"

\* C32: in every state reached after initialisation, each account of the
\* coordinator's account map, whether loaded from storage at startup or
\* added later by setupAccount, has exactly one active recurring timer at
\* its syncSettings.syncInterval, until the account is removed.
C32_EveryAccountHasTimer ==
    \A a \in cx.accounts :
        (~RemovalBegun(a) /\ ~SetupRunning(a)) =>
            /\ Cardinality(TimersOf(cx, a)) = 1
            /\ \A t \in TimersOf(cx, a) : t.interval = cx.objects[a].syncInterval

\* the part of C32 that holds: an account loaded at startup has exactly
\* one timer at its interval until removeAccount is called for it, and no
\* account ever has two
C32_LoadedAccountHasTimer ==
    /\ \A a \in cx.accounts :
          (~RemovalBegun(a) /\ cx.objects[a].enabled = {}) =>
              /\ Cardinality(TimersOf(cx, a)) = 1
              /\ \A t \in TimersOf(cx, a) : t.interval = cx.objects[a].syncInterval
    /\ \A a \in Accounts : Cardinality(TimersOf(cx, a)) <= 1

(***************************************************************************)
(* SpecContainer: sync and incrementalSync calls of the contacts engine    *)
(* for one account, with getOrCreateAddressBook in its two awaits          *)
(* (addressBooks.list, addressBooks.create).  tbStore.addressBooks is the  *)
(* list of the address books of the local store, by name; calls,           *)
(* syncState and lastSyncTimestamp are those of SpecEngine.                *)
(***************************************************************************)
\* the address books named `Exchange - ${account.displayName}`
ExchangeBooks(books) ==
    {i \in 1..Len(books) : books[i] = addressBookName(IncrementalAccount)}

\* the engine as constructed or after an earlier sync, the address book
\* present or absent (never made, or deleted by the user since)
InitContainer ==
    /\ \E books \in {<<PersonalAddressBook>>,
                     <<PersonalAddressBook, addressBookName(IncrementalAccount)>>} :
          tbStore = [addressBooks |-> books, accounts |-> {}, contacts |-> <<>>]
    /\ \E last \in {0, PriorSync} :
          lastSyncTimestamp = [e \in Engines |-> [a \in Accounts |->
                                  IF e = "contacts" /\ a = IncrementalAccount
                                  THEN last ELSE 0]]
    /\ syncState = [e \in Engines |-> [a \in Accounts |-> NoState]]
    /\ calls = [c \in CallIds |-> NewCall]
    /\ clock = PriorSync
    /\ exStore = <<>>
    /\ run = RunUnused
    /\ runResults = <<>>
    /\ storeLog = <<>>
    /\ rx = RetryIdle
    /\ cx = CoordIdle
    /\ kx = KeysIdle

\* what the call awaits once it holds the address book
AfterContainer(c) == IF calls[c].body = "full" THEN "pull" ELSE "incWork"

\* browser.addressBooks.list() resolves: the book found is returned, and
\* with none found browser.addressBooks.create is awaited
AddressBooksListed(c) ==
    /\ calls[c].pc = "container"
    /\ calls' = [calls EXCEPT ![c].pc = IF ExchangeBooks(tbStore.addressBooks) # {}
                                        THEN AfterContainer(c) ELSE "creating",
                              ![c].storeCalls = @ + 1]
    /\ UNCHANGED <<syncState, lastSyncTimestamp, clock, tbStore, storeLog>>

\* browser.addressBooks.create({name, type}) resolves
AddressBookAdded(c) ==
    /\ calls[c].pc = "creating"
    /\ tbStore' = [tbStore EXCEPT
                      !.addressBooks = Append(@, addressBookName(IncrementalAccount))]
    /\ storeLog' = Append(storeLog, LogEntry(c, "addressBooks.create", 0, <<>>,
                                             addressBookName(IncrementalAccount)))
    /\ calls' = [calls EXCEPT ![c].pc = AfterContainer(c), ![c].storeCalls = @ + 1]
    /\ UNCHANGED <<syncState, lastSyncTimestamp, clock>>

\* browser.addressBooks.create throws
AddressBookAddFails(c) ==
    /\ calls[c].pc = "creating"
    /\ EngineError(c, "addressBooks failed")
    /\ UNCHANGED <<tbStore, storeLog>>

NextContainer ==
    /\ UNCHANGED <<retryVars, keyVars, coordVars, exStore, run, runResults>>
    /\ \/ (\E c \in CallIds : CallSync(c, "contacts", IncrementalAccount))
             /\ UNCHANGED <<tbStore, storeLog>>
       \/ (\E c \in CallIds : CallIncrementalSync(c, "contacts", IncrementalAccount))
             /\ UNCHANGED <<tbStore, storeLog>>
       \/ \E c \in CallIds : AddressBooksListed(c)
       \/ (\E c \in CallIds : ContainerFails(c)) /\ UNCHANGED <<tbStore, storeLog>>
       \/ \E c \in CallIds : AddressBookAdded(c)
       \/ \E c \in CallIds : AddressBookAddFails(c)
       \/ (\E c \in CallIds : PullDone(c)) /\ UNCHANGED <<tbStore, storeLog>>
       \/ (\E c \in CallIds : PullFails(c)) /\ UNCHANGED <<tbStore, storeLog>>
       \/ (\E c \in CallIds : PushDone(c)) /\ UNCHANGED <<tbStore, storeLog>>
       \/ (\E c \in CallIds : PushFails(c)) /\ UNCHANGED <<tbStore, storeLog>>
       \/ (\E c \in CallIds : IncWorkDone(c)) /\ UNCHANGED <<tbStore, storeLog>>

SpecContainer == InitContainer /\ [][NextContainer]_vars

\* C33: getOrCreateAddressBook returns the existing address book named
\* 'Exchange - {displayName}' when one exists and creates one only when
\* none exists, so that after any interleaving of sync and incrementalSync
\* calls there is never more than one address book with that name in the
\* local store.
C33_AtMostOneAddressBook ==
    Cardinality(ExchangeBooks(tbStore.addressBooks)) <= 1

\* the part of C33 that holds: a call that finds the book in the list it
\* was given creates none, and calls that all went through sync() create
\* at most one book between them
C33_CreatesOnlyWhenListedNone ==
    /\ [][\A c \in CallIds :
            (calls[c].pc = "container" /\ calls'[c].pc \notin {"container", "thrown"}) =>
                /\ tbStore' = tbStore
                /\ (calls'[c].pc = "creating") = (ExchangeBooks(tbStore.addressBooks) = {})]_vars
    /\ []((\A c \in CallIds : calls[c].body # "incremental") =>
             Cardinality(ExchangeBooks(tbStore.addressBooks)) <= 1)

(***************************************************************************)
(* The creates of the local->remote pass against the remote folder.        *)
(***************************************************************************)
\* the createContact calls of the current run
PushCreates ==
    {k \in 1..Len(storeLog) : storeLog[k].run = run.n /\ storeLog[k].op = "ex.create"}

\* C34: ContactSync.syncThunderbirdToExchange calls createContact only for
\* a local contact whose dedup key matches no contact present on the
\* remote at that time, also when a page request fails or returns
\* success = false part-way through getAllExchangeContacts and leaves the
\* remote key map incomplete.
C34_NoRemoteDuplicates ==
    \A k \in PushCreates : ExMapGet(run.ex0, storeLog[k].key) = <<>>

\* the part of C34 that holds: a createContact is made only for a key that
\* the contacts getAllExchangeContacts returned do not carry, and when no
\* page request of getAllExchangeContacts failed those are all the
\* contacts of the remote
C34_CreatesOnlyForKeysNotFetched ==
    \A k \in PushCreates :
        /\ ExMapGet(run.exAll, storeLog[k].key) = <<>>
        /\ EntriesOf(run.n, "push.pageFailed") = <<>> => run.exAll = run.ex0

(***************************************************************************)
(* The dedup keys of the address book across a run.                        *)
(***************************************************************************)
\* no two contacts of the local list carry the same dedup key
OnePerKey(list) ==
    \A i, j \in 1..Len(list) :
        generateContactKey(list[i]) = generateContactKey(list[j]) => i = j

\* C35: if the address book holds at most one contact per dedup key before
\* ContactSync.sync, it holds at most one contact per dedup key after the
\* sync, also when several remote contacts of the run share a dedup key.
C35_OneLocalContactPerKey ==
    (run.pc = "finish" /\ OnePerKey(run.tb0)) => OnePerKey(tbStore)

\* the part of C35 that holds: when no two remote contacts of the run
\* share a dedup key, and every remote contact keeps its key when it is
\* converted, the address book ends with one contact per key
C35_OnePerKeyForDistinctRemoteKeys ==
    (/\ run.pc = "finish"
     /\ OnePerKey(run.tb0)
     /\ \A i, j \in 1..Len(run.ex0) :
           generateContactKeyFromExchange(run.ex0[i])
              = generateContactKeyFromExchange(run.ex0[j]) => i = j
     /\ \A i \in 1..Len(run.ex0) :
           generateContactKey(convertExchangeContact(run.ex0[i]))
              = generateContactKeyFromExchange(run.ex0[i]))
        => OnePerKey(tbStore)

(***************************************************************************)
(* SpecLifecycle: the calls of SpecEngine with init(account, client) and   *)
(* cleanup(accountId) called on the engine between their steps.            *)
(***************************************************************************)
\* the syncState entry init(account, exchangeClient) sets
InitialisedState == [has |-> TRUE, inProgress |-> FALSE, lastError |-> "", statistics |-> 0]

\* the engine the behaviour's calls are made on, and the account of the
\* first of them
InUse(e, a) == calls[1].pc # "new" /\ calls[1].engine = e /\ calls[1].account = a

\* init(account, exchangeClient)
CallInit(e, a) ==
    /\ InUse(e, a)
    /\ syncState' = [syncState EXCEPT ![e][a] = InitialisedState]
    /\ UNCHANGED <<lastSyncTimestamp, calls, clock>>

\* cleanup(accountId)
CallCleanup(e, a) ==
    /\ InUse(e, a)
    /\ syncState' = [syncState EXCEPT ![e][a] = NoState]
    /\ lastSyncTimestamp' = [lastSyncTimestamp EXCEPT ![e][a] = 0]
    /\ UNCHANGED <<calls, clock>>

\* cleanup(): both Maps cleared
CallCleanupAll(e) ==
    /\ \E a \in Accounts : InUse(e, a)
    /\ syncState' = [syncState EXCEPT ![e] = [a \in Accounts |-> NoState]]
    /\ lastSyncTimestamp' = [lastSyncTimestamp EXCEPT ![e] = [a \in Accounts |-> 0]]
    /\ UNCHANGED <<calls, clock>>

NextLifecycle ==
    \/ NextEngine
    \/ (\E e \in Engines, a \in Accounts : CallInit(e, a))
          /\ UNCHANGED <<retryVars, keyVars, dataVars, coordVars>>
    \/ (\E e \in Engines, a \in Accounts : CallCleanup(e, a))
          /\ UNCHANGED <<retryVars, keyVars, dataVars, coordVars>>
    \/ (\E e \in Engines : CallCleanupAll(e))
          /\ UNCHANGED <<retryVars, keyVars, dataVars, coordVars>>

SpecLifecycle == InitEngine /\ [][NextLifecycle]_vars

\* C36: while a sync for an account is in progress on an engine, calling
\* init(account, client) or cleanup(accountId) on that engine does not
\* allow a second sync(account) for the same account to be accepted before
\* the first has finished.
C36_GuardSurvivesLifecycle ==
    \A e \in Engines, a \in Accounts :
        \A c, d \in SyncsInFlight(e, a) : c = d

\* what does hold: a sync call made while the account's entry says
\* inProgress is refused, whatever init and cleanup did before
C36_RefusedWhileMarked ==
    [][\A c \in CallIds, e \in Engines, a \in Accounts :
          (/\ EntersSync(c)
           /\ calls'[c].engine = e /\ calls'[c].account = a
           /\ AlreadyInProgress(e, a)) =>
              /\ calls'[c].result = "rejected"
              /\ syncState' = syncState]_vars

(***************************************************************************)
(* SpecToken: syncAccount's call of AuthManager.refreshTokenIfNeeded for   *)
(* one account, up to the start of the engines.  kx holds the account's    *)
(* refresh token (present or not), the expiry time recorded for it (0:     *)
(* none) and the instant of the call; time is counted in minutes.          *)
(***************************************************************************)
\* const fiveMinutes = 5 * 60 * 1000
fiveMinutes == 5

\* tokens.expiresIn of a refreshed token
TokenLifetime == 60

\* Date.now() at the call
TokenNowValues == 100..106

\* tokenExpiryTimes.get(account.email): none recorded, or a time from
\* before the call to well after it
ExpiryTimes == {0, 90, 100, 103, 105, 106, 112, 160}

\* AuthManager.isTokenExpired(email) at instant now
isTokenExpired(expiryTime, now) == IF expiryTime = 0 THEN TRUE ELSE now >= expiryTime

\* the early returns of refreshTokenIfNeeded: no refresh token, no expiry
\* time recorded, or more than five minutes left
refreshNotNeeded(refreshToken, expiryTime, now) ==
    \/ ~refreshToken
    \/ expiryTime = 0
    \/ expiryTime - now > fiveMinutes

InitToken ==
    /\ \E refreshToken \in BOOLEAN, expiryTime \in ExpiryTimes, now \in TokenNowValues :
          kx = [stage |-> "syncAccount", refreshToken |-> refreshToken,
                expiryTime |-> expiryTime, now |-> now, refreshed |-> "no"]
    /\ rx = RetryIdle
    /\ cx = CoordIdle
    /\ syncState = <<>>
    /\ lastSyncTimestamp = <<>>
    /\ calls = <<>>
    /\ clock = 0
    /\ tbStore = <<>>
    /\ exStore = <<>>
    /\ run = RunUnused
    /\ runResults = <<>>
    /\ storeLog = <<>>

\* refreshTokenIfNeeded returns {success: true} without a refresh;
\* syncAccount goes on to start the engines
RefreshNotNeeded ==
    /\ kx.stage = "syncAccount"
    /\ refreshNotNeeded(kx.refreshToken, kx.expiryTime, kx.now)
    /\ kx' = [kx EXCEPT !.stage = "engines"]

\* the token is refreshed: storeTokens records the new expiry time;
\* syncAccount goes on to start the engines
RefreshSucceeds ==
    /\ kx.stage = "syncAccount"
    /\ ~refreshNotNeeded(kx.refreshToken, kx.expiryTime, kx.now)
    /\ kx' = [kx EXCEPT !.stage = "engines", !.refreshed = "yes",
                        !.expiryTime = kx.now + TokenLifetime]

\* the refresh fails (no endpoints, or refreshToken answers without
\* success): the catch block returns {success: false, error}, which
\* syncAccount does not read; it goes on to start the engines
RefreshFails ==
    /\ kx.stage = "syncAccount"
    /\ ~refreshNotNeeded(kx.refreshToken, kx.expiryTime, kx.now)
    /\ kx' = [kx EXCEPT !.stage = "engines", !.refreshed = "failed"]

NextToken ==
    /\ UNCHANGED <<retryVars, engineVars, dataVars, coordVars>>
    /\ \/ RefreshNotNeeded
       \/ RefreshSucceeds
       \/ RefreshFails

SpecToken == InitToken /\ [][NextToken]_vars

\* C37: for an account that has a refresh token, refreshTokenIfNeeded
\* performs a refresh whenever the access token is expired or expires
\* within five minutes, in particular whenever isTokenExpired is true,
\* including when no expiry time is recorded, so that syncAccount never
\* starts the engines with a token that isTokenExpired reports as expired.
C37_RefreshGatesEngines ==
    (kx.stage = "engines" /\ kx.refreshToken) =>
        /\ ~isTokenExpired(kx.expiryTime, kx.now)
        /\ (kx.refreshed = "no" => kx.expiryTime - kx.now > fiveMinutes)

\* the part of C37 that holds: with an expiry time recorded, a refresh is
\* attempted exactly when the token is expired or expires within five
\* minutes, and when the refresh succeeds the engines start with a token
\* that is not expired
C37_RefreshAttemptedNearExpiry ==
    (kx.stage = "engines" /\ kx.refreshToken) =>
        /\ (kx.refreshed = "yes" => ~isTokenExpired(kx.expiryTime, kx.now))
        /\ (kx.refreshed = "no" =>
               kx.expiryTime = 0 \/ kx.expiryTime - kx.now > fiveMinutes)
        /\ (kx.refreshed = "failed" => kx.expiryTime - kx.now <= fiveMinutes)

(***************************************************************************)
(* The conflict policy of ContactSync.sync: a pair of one local and one    *)
(* remote contact with the same dedup key that differ in a compared field  *)
(* filled on both sides.                                                   *)
(***************************************************************************)
\* the address book holds up to this many contacts when the run starts
MaxConflictLocal == 2

\* local contacts: two with the key 'a@x', one of them with a company the
\* remote side does not have, one whose email differs from theirs in case
\* only, and one with a key of its own
TbConflictUniverse ==
    { [DisplayName |-> <<"A">>, FirstName |-> <<>>, LastName |-> <<>>,
       PrimaryEmail |-> <<"a", "@", "x">>, WorkPhone |-> <<>>, Company |-> <<>>],
      [DisplayName |-> <<"A">>, FirstName |-> <<>>, LastName |-> <<>>,
       PrimaryEmail |-> <<"a", "@", "x">>, WorkPhone |-> <<>>, Company |-> <<"C">>],
      [DisplayName |-> <<"L">>, FirstName |-> <<>>, LastName |-> <<>>,
       PrimaryEmail |-> <<"A", "@", "x">>, WorkPhone |-> <<>>, Company |-> <<>>],
      [DisplayName |-> <<"S">>, FirstName |-> <<>>, LastName |-> <<>>,
       PrimaryEmail |-> <<"s", "@", "x">>, WorkPhone |-> <<>>, Company |-> <<>>] }

\* remote contacts, each with a key of its own
ExConflictUniverse ==
    { [displayName |-> <<"B">>, firstName |-> <<>>, lastName |-> <<>>,
       email |-> <<"a", "@", "x">>, phone |-> <<>>, company |-> <<>>],
      [displayName |-> <<"S">>, firstName |-> <<>>, lastName |-> <<>>,
       email |-> <<"s", "@", "x">>, phone |-> <<"1">>, company |-> <<>>],
      [displayName |-> <<"Z">>, firstName |-> <<>>, lastName |-> <<>>,
       email |-> <<"z", "@", "x">>, phone |-> <<>>, company |-> <<>>] }

InitConflict ==
    /\ \E q \in DistinctSeqs(TbConflictUniverse, MaxConflictLocal) : tbStore = WithIds(q)
    /\ \E q \in DistinctSeqs(ExConflictUniverse, MaxRemote) : exStore = WithIds(q)
    /\ run = RunIdle(1)
    /\ runResults = <<>>
    /\ storeLog = <<>>
    /\ rx = RetryIdle
    /\ cx = CoordIdle
    /\ kx = KeysIdle
    /\ syncState = <<>>
    /\ lastSyncTimestamp = <<>>
    /\ calls = <<>>
    /\ clock = 0

\* contact syncs with no store call failing, from address books that may
\* hold two contacts of one key
SpecConflict == InitConflict /\ [][NextContacts]_vars

\* the compared fields in which the pair differs with a value on both sides
ConflictFields(thunderbirdContact, exchangeContact) ==
    {i \in 1..Len(fieldsToCompare) :
        /\ thunderbirdContact[fieldsToCompare[i].tb] # exchangeContact[fieldsToCompare[i].ex]
        /\ thunderbirdContact[fieldsToCompare[i].tb] # <<>>
        /\ exchangeContact[fieldsToCompare[i].ex] # <<>>}

\* the pairs (local index, remote index) of the stores the run started
\* from that share a dedup key and are in conflict
ConflictPairs ==
    {p \in (1..Len(run.tb0)) \X (1..Len(run.ex0)) :
        /\ generateContactKey(run.tb0[p[1]]) = generateContactKeyFromExchange(run.ex0[p[2]])
        /\ ConflictFields(run.tb0[p[1]], run.ex0[p[2]]) # {}}

\* the updateContact calls of the current run for the remote contact id
UpdatesSentFor(id) ==
    {k \in 1..Len(storeLog) :
        storeLog[k].run = run.n /\ storeLog[k].op = "ex.update" /\ storeLog[k].id = id}

\* no other remote contact of the run carries the dedup key of remote j
RemoteKeyUnique(j) ==
    \A k \in 1..Len(run.ex0) :
        generateContactKeyFromExchange(run.ex0[k]) = generateContactKeyFromExchange(run.ex0[j])
            => k = j

\* C38: in a ContactSync.sync run with no failing store call, for a
\* key-matched local/remote pair that differs in a tracked field which is
\* non-empty on both sides, the local contact is overwritten with the
\* remote value in the remote->local pass and the local->remote pass sends
\* no updateContact for that pair, so the remote value is never replaced
\* by the local one.
C38_RemoteWins ==
    run.pc = "finish" =>
        \A p \in ConflictPairs :
            /\ \A i \in ConflictFields(run.tb0[p[1]], run.ex0[p[2]]) :
                  /\ RemoteKeyUnique(p[2]) =>
                        tbStore[p[1]][fieldsToCompare[i].tb] = run.ex0[p[2]][fieldsToCompare[i].ex]
                  /\ exStore[p[2]][fieldsToCompare[i].ex] = run.ex0[p[2]][fieldsToCompare[i].ex]
            /\ UpdatesSentFor(run.ex0[p[2]].id) = {}

\* no other local contact of the run carries the dedup key of local j
LocalKeyUnique(j) ==
    \A k \in 1..Len(run.tb0) :
        generateContactKey(run.tb0[k]) = generateContactKey(run.tb0[j]) => k = j

\* the compared fields the local contact fills and the remote one lacks
LocalOnlyFields(thunderbirdContact, exchangeContact) ==
    {i \in 1..Len(fieldsToCompare) :
        /\ trim(thunderbirdContact[fieldsToCompare[i].tb]) # <<>>
        /\ exchangeContact[fieldsToCompare[i].ex] = <<>>}

\* the part of C38 that holds: when the pair's key is carried by no other
\* contact on either side, the local contact takes the remote value of
\* every field in conflict and the remote contact keeps it; and when the
\* local contact fills no compared field that the remote one lacks, no
\* updateContact is sent for the pair
C38_RemoteWinsForUniqueKeys ==
    run.pc = "finish" =>
        \A p \in ConflictPairs :
            (LocalKeyUnique(p[1]) /\ RemoteKeyUnique(p[2])) =>
                /\ \A i \in ConflictFields(run.tb0[p[1]], run.ex0[p[2]]) :
                      /\ tbStore[p[1]][fieldsToCompare[i].tb] = run.ex0[p[2]][fieldsToCompare[i].ex]
                      /\ exStore[p[2]][fieldsToCompare[i].ex] = run.ex0[p[2]][fieldsToCompare[i].ex]
                /\ LocalOnlyFields(run.tb0[p[1]], run.ex0[p[2]]) = {} =>
                      UpdatesSentFor(run.ex0[p[2]].id) = {}

(***************************************************************************)
(* SpecBooks: two accounts made by setupAccount, each synced once by       *)
(* ContactSync; the steps of the two syncs interleave.  kx holds, per      *)
(* account, its displayName, the position of its sync and the address      *)
(* book getOrCreateAddressBook returned (0: none yet).  Each account's     *)
(* remote folder holds one contact, which is keyed by the account here.    *)
(***************************************************************************)
BookAccounts == {"acct1", "acct2"}

\* accountData.displayName and accountData.email as the setup form gives them
DisplayNameInputs == {<<>>, <<"W">>, <<"H">>}
EmailInputs == {<<"a", "@", "x">>, <<"b", "@", "x">>}

\* the address books whose name is name
BooksNamed(books, name) == {i \in 1..Len(books) : books[i] = name}

\* addressBooks.find(ab => ab.name === addressBookName): the first match
FindBook(books, name) ==
    IF BooksNamed(books, name) = {} THEN 0
    ELSE CHOOSE i \in BooksNamed(books, name) : \A j \in BooksNamed(books, name) : i <= j

\* the contacts of address book b: browser.contacts.list(addressBook.id)
ContactsOfBook(contacts, b) == {k \in 1..Len(contacts) : contacts[k].book = b}

\* step 3 of setupAccount for both accounts: ids are generated, hence
\* distinct; displayName falls back to the email
InitBooks ==
    /\ \E dn \in [BookAccounts -> DisplayNameInputs], em \in [BookAccounts -> EmailInputs] :
          kx = [stage |-> "books",
                accounts |-> [a \in BookAccounts |->
                                 [displayName |-> Or(dn[a], em[a]), pc |-> "container",
                                  book |-> 0]]]
    /\ tbStore = [addressBooks |-> <<PersonalAddressBook>>, accounts |-> {},
                  contacts |-> <<>>]
    /\ rx = RetryIdle
    /\ cx = CoordIdle
    /\ syncState = <<>>
    /\ lastSyncTimestamp = <<>>
    /\ calls = <<>>
    /\ clock = 0
    /\ exStore = <<>>
    /\ run = RunUnused
    /\ runResults = <<>>
    /\ storeLog = <<>>

\* getOrCreateAddressBook: browser.addressBooks.list() resolves and the
\* book of the account's name is looked up
BookListed(a) ==
    /\ kx.accounts[a].pc = "container"
    /\ LET found == FindBook(tbStore.addressBooks,
                             addressBookName(kx.accounts[a].displayName))
       IN kx' = [kx EXCEPT !.accounts[a].book = found,
                           !.accounts[a].pc = IF found = 0 THEN "creating" ELSE "pull"]
    /\ UNCHANGED <<tbStore, storeLog>>

\* getOrCreateAddressBook: browser.addressBooks.create resolves
BookCreated(a) ==
    /\ kx.accounts[a].pc = "creating"
    /\ tbStore' = [tbStore EXCEPT
                      !.addressBooks = Append(@, addressBookName(kx.accounts[a].displayName))]
    /\ kx' = [kx EXCEPT !.accounts[a].book = Len(tbStore.addressBooks) + 1,
                        !.accounts[a].pc = "pull"]
    /\ UNCHANGED storeLog

\* syncExchangeToThunderbird: the account's remote contact is looked up
\* among the contacts of the book and created there when its key is absent
BookPull(a) ==
    /\ kx.accounts[a].pc = "pull"
    /\ LET b == kx.accounts[a].book
           present == \E k \in ContactsOfBook(tbStore.contacts, b) :
                          tbStore.contacts[k].key = a
       IN /\ tbStore' = IF present THEN tbStore
                        ELSE [tbStore EXCEPT !.contacts = Append(@, [book |-> b, key |-> a])]
          /\ storeLog' = Append(storeLog, LogEntry(a, "pull.match", b, a,
                                    {tbStore.contacts[k].key :
                                        k \in ContactsOfBook(tbStore.contacts, b)}))
    /\ kx' = [kx EXCEPT !.accounts[a].pc = "push"]

\* syncThunderbirdToExchange: every contact of the book whose key the
\* account's remote folder lacks is sent to it with createContact
BookPush(a) ==
    /\ kx.accounts[a].pc = "push"
    /\ storeLog' = Append(storeLog, LogEntry(a, "ex.create", kx.accounts[a].book, a,
                              {tbStore.contacts[k].key :
                                  k \in ContactsOfBook(tbStore.contacts, kx.accounts[a].book)}
                                \ {a}))
    /\ kx' = [kx EXCEPT !.accounts[a].pc = "done"]
    /\ UNCHANGED tbStore

NextBooks ==
    /\ UNCHANGED <<retryVars, engineVars, coordVars, exStore, run, runResults>>
    /\ \/ \E a \in BookAccounts : BookListed(a)
       \/ \E a \in BookAccounts : BookCreated(a)
       \/ \E a \in BookAccounts : BookPull(a)
       \/ \E a \in BookAccounts : BookPush(a)

SpecBooks == InitBooks /\ [][NextBooks]_vars

\* C39: for two distinct accounts (distinct ids), ContactSync resolves
\* distinct local address books, so contacts pulled for one account are
\* never matched against, written into or pushed from the other account's
\* address book, also when both accounts have the same displayName.
C39_AccountsDoNotShareContainer ==
    /\ \A a, b \in BookAccounts :
          (a # b /\ kx.accounts[a].book # 0 /\ kx.accounts[b].book # 0) =>
              kx.accounts[a].book # kx.accounts[b].book
    /\ \A k \in 1..Len(storeLog) :
          storeLog[k].op \in {"pull.match", "ex.create"} =>
              storeLog[k].item \subseteq {storeLog[k].run}

\* the part of C39 that holds: accounts with different displayNames
\* resolve different address books, and a book resolved by one account
\* only holds no contact of another
C39_DistinctNamesDistinctBooks ==
    \A a, b \in BookAccounts :
        (/\ a # b
         /\ kx.accounts[a].displayName # kx.accounts[b].displayName
         /\ kx.accounts[a].book # 0) =>
            /\ kx.accounts[a].book # kx.accounts[b].book
            /\ \A k \in ContactsOfBook(tbStore.contacts, kx.accounts[a].book) :
                  tbStore.contacts[k].key = a

(***************************************************************************)
(* The record of the last good run (statistics, lastSyncTimestamp) across  *)
(* the calls of SpecEngine.                                                *)
(***************************************************************************)
\* call c ends in this step without success: rejected at entry, or with an
\* exception out of an accepted call
EndsWithoutSuccess(c) ==
    /\ calls[c].pc # calls'[c].pc
    /\ calls'[c].pc \in {"returned", "thrown"}
    /\ calls'[c].result \in {"rejected", "error"}

\* call c of (e, a) returns with success in this step
CompletesSuccessfully(c, e, a) ==
    /\ calls[c].pc \in RunningPcs
    /\ calls'[c].pc = "returned"
    /\ calls'[c].result = "success"
    /\ calls'[c].engine = e
    /\ calls'[c].account = a

\* C40: when an accepted sync ends with an engine-level exception, or a
\* sync call is rejected as already in progress, the engine's statistics
\* and its lastSyncTimestamp for that account keep the values they had;
\* lastSyncTimestamp and statistics change only in a step in which a sync
\* of that engine and account completes successfully.
C40_FailureKeepsLastGoodRun ==
    /\ [][\A c \in CallIds :
            EndsWithoutSuccess(c) =>
                /\ lastSyncTimestamp' = lastSyncTimestamp
                /\ \A e \in Engines, a \in Accounts :
                      syncState'[e][a].statistics = syncState[e][a].statistics]_vars
    /\ [][\A e \in Engines, a \in Accounts :
            (\/ lastSyncTimestamp'[e][a] # lastSyncTimestamp[e][a]
             \/ syncState'[e][a].statistics # syncState[e][a].statistics) =>
                \E c \in CallIds : CompletesSuccessfully(c, e, a)]_vars

\* a sync of an account has succeeded and a later sync of the same account
\* on the same engine has ended with an exception, the statistics and the
\* timestamp of the good run in place
C40_Witness ==
    \E c1, c2 \in CallIds :
        /\ c1 < c2
        /\ calls[c1].engine = calls[c2].engine /\ calls[c1].account = calls[c2].account
        /\ calls[c1].body = "full" /\ calls[c1].result = "success"
        /\ calls[c2].body = "full" /\ calls[c2].result = "error"
        /\ syncState[calls[c1].engine][calls[c1].account].statistics = c1
        /\ syncState[calls[c1].engine][calls[c1].account].lastError # ""
        /\ lastSyncTimestamp[calls[c1].engine][calls[c1].account] # 0

====
